---- MODULE Spec2Model ----
(***************************************************************************)
(* TalkToData: the SQL safety gate (validateSql / sanitizeSql), the        *)
(* database adapters' executeQuery row cap, the encrypted-cookie session   *)
(* and the per-request orchestration flows of the API routes.              *)
(*                                                                         *)
(* SQL texts are sequences of one-character strings, so that trimming,     *)
(* case folding, word boundaries and the regular expressions of the        *)
(* validator are computed character by character, as the JavaScript does.  *)
(***************************************************************************)
EXTENDS Integers, Sequences, FiniteSets, TLC

(***************************************************************************)
(* JavaScript string primitives used by the validator and the adapters.    *)
(***************************************************************************)
LowerAlpha == <<"a", "b", "c", "d", "e", "f", "g", "h", "i", "j", "k", "l", "m", "n", "o", "p", "q", "r", "s", "t", "u", "v", "w", "x", "y", "z">>
UpperAlpha == <<"A", "B", "C", "D", "E", "F", "G", "H", "I", "J", "K", "L", "M", "N", "O", "P", "Q", "R", "S", "T", "U", "V", "W", "X", "Y", "Z">>
Digits == <<"0", "1", "2", "3", "4", "5", "6", "7", "8", "9">>

Range(s) == {s[i] : i \in 1..Len(s)}

LowerSet == Range(LowerAlpha)

UpperSet == Range(UpperAlpha)

DigitSet == Range(Digits)

UpperOf == [c \in LowerSet |-> UpperAlpha[CHOOSE i \in 1..26 : LowerAlpha[i] = c]]

LowerOf == [c \in UpperSet |-> LowerAlpha[CHOOSE i \in 1..26 : UpperAlpha[i] = c]]

\* String.prototype.toUpperCase / toLowerCase on one character
UpperChar(c) == IF c \in LowerSet THEN UpperOf[c] ELSE c

LowerChar(c) == IF c \in UpperSet THEN LowerOf[c] ELSE c

toUpperCase(s) == [i \in 1..Len(s) |-> UpperChar(s[i])]

toLowerCase(s) == [i \in 1..Len(s) |-> LowerChar(s[i])]

\* the class \s of a regular expression, and the characters trim() removes
WsSet == {" ", "\t", "\n"}

IsWs(c) == c \in WsSet

\* the class \w of a regular expression
WordChars == LowerSet \cup UpperSet \cup DigitSet \cup {"_"}

IsWordChar(c) == c \in WordChars

\* String.prototype.trim
trim(s) ==
    LET keep == {i \in 1..Len(s) : ~IsWs(s[i])}
    IN  IF keep = {} THEN <<>>
        ELSE SubSeq(s, CHOOSE i \in keep : \A j \in keep : i <= j,
                       CHOOSE i \in keep : \A j \in keep : j <= i)

\* a prefix test that accepts the prefix at any position
startsWith_Anywhere(s, p) ==
    \E i \in 0..(Len(s) - Len(p)) : SubSeq(s, i + 1, i + Len(p)) = p

\* String.prototype.startsWith
startsWith(s, p) == Len(s) >= Len(p) /\ SubSeq(s, 1, Len(p)) = p

\* p occurs in s at position i (case-sensitive)
OccursAt(s, i, p) ==
    i >= 1 /\ i + Len(p) - 1 <= Len(s) /\ \A k \in 1..Len(p) : s[i + k - 1] = p[k]

\* p (given in upper case) occurs in s at position i under the regex flag i
OccursAtCI(s, i, p) ==
    i >= 1 /\ i + Len(p) - 1 <= Len(s) /\ \A k \in 1..Len(p) : UpperChar(s[i + k - 1]) = p[k]

\* String.prototype.includes
includes(s, p) == \E i \in 1..Len(s) : OccursAt(s, i, p)

\* s[i..j-1] is a run of whitespace (possibly empty)
WsRun(s, i, j) == \A k \in i..(j - 1) : IsWs(s[k])

(***************************************************************************)
(* src/lib/validators/sql.ts                                                *)
(***************************************************************************)
W_INSERT == <<"I", "N", "S", "E", "R", "T">>
W_UPDATE == <<"U", "P", "D", "A", "T", "E">>
W_DELETE == <<"D", "E", "L", "E", "T", "E">>
W_DROP == <<"D", "R", "O", "P">>
W_CREATE == <<"C", "R", "E", "A", "T", "E">>
W_ALTER == <<"A", "L", "T", "E", "R">>
W_TRUNCATE == <<"T", "R", "U", "N", "C", "A", "T", "E">>
W_GRANT == <<"G", "R", "A", "N", "T">>
W_REVOKE == <<"R", "E", "V", "O", "K", "E">>
W_EXECUTE == <<"E", "X", "E", "C", "U", "T", "E">>
W_EXEC == <<"E", "X", "E", "C">>
W_CALL == <<"C", "A", "L", "L">>
W_INTO == <<"I", "N", "T", "O">>
W_SELECT == <<"S", "E", "L", "E", "C", "T">>
W_WITH == <<"W", "I", "T", "H">>
W_UNION == <<"U", "N", "I", "O", "N">>
W_ALL == <<"A", "L", "L">>
W_LIMIT == <<"L", "I", "M", "I", "T">>
W_TOP == <<"T", "O", "P">>

\* the 13 forbidden keywords, in the order the validator tries them
DANGEROUS_KEYWORDS ==
    << W_INSERT, W_UPDATE, W_DELETE, W_DROP, W_CREATE,
       W_ALTER, W_TRUNCATE, W_GRANT, W_REVOKE, W_EXECUTE,
       W_EXEC, W_CALL, W_INTO >>

\* the keyword test without its two word boundaries
WordMatch_Substring(text, kw) == \E i \in 1..Len(text) : OccursAtCI(text, i, kw)

\* new RegExp(`\\b${keyword}\\b`, 'i').test(sql): the keyword begins and ends with a
\* word character, so \b holds where the neighbour is absent or not a word character
WordMatch(text, kw) ==
    \E i \in 1..Len(text) :
        /\ OccursAtCI(text, i, kw)
        /\ (i = 1 \/ ~IsWordChar(text[i - 1]))
        /\ (i + Len(kw) > Len(text) \/ ~IsWordChar(text[i + Len(kw)]))

\* /;\s*(?:INSERT|UPDATE|DELETE|DROP|CREATE|ALTER|TRUNCATE)/i
ChainPattern(text) ==
    \E i \in 1..Len(text) :
        /\ text[i] = ";"
        /\ \E j \in (i + 1)..Len(text) :
            /\ WsRun(text, i + 1, j)
            /\ \E k \in 1..7 : OccursAtCI(text, j, DANGEROUS_KEYWORDS[k])

\* /--.*$/m : .* may be empty and $ matches before a line terminator or at the end
LineCommentPattern(text) == includes(text, <<"-", "-">>)

\* /\/\*[\s\S]*?\*\//
BlockCommentPattern(text) ==
    \E i \in 1..Len(text) :
        /\ OccursAt(text, i, <<"/", "*">>)
        /\ \E j \in (i + 2)..Len(text) : OccursAt(text, j, <<"*", "/">>)

\* /UNION\s+(?:ALL\s+)?SELECT/i
UnionPattern(text) ==
    \E i \in 1..Len(text) :
        /\ OccursAtCI(text, i, W_UNION)
        /\ \E j \in (i + 6)..Len(text) :
            /\ WsRun(text, i + 5, j)
            /\ \/ OccursAtCI(text, j, W_SELECT)
               \/ /\ OccursAtCI(text, j, W_ALL)
                  /\ \E k \in (j + 4)..Len(text) :
                        WsRun(text, j + 3, k) /\ OccursAtCI(text, k, W_SELECT)

\* the pattern list without its last entry
INJECTION_PATTERNS_NoUnion(text) ==
    ChainPattern(text) \/ LineCommentPattern(text) \/ BlockCommentPattern(text)

INJECTION_PATTERNS(text) ==
    ChainPattern(text) \/ LineCommentPattern(text) \/ BlockCommentPattern(text) \/ UnionPattern(text)

\* the value validateSql returns (void) ...
Accepted == [ok |-> TRUE, code |-> "none", rule |-> 0, keyword |-> <<>>]

\* ... and the AppError it throws: its code, the rule that threw, and the keyword
\* the message and details name (empty when the message names none)
Rejected(rule, kw) == [ok |-> FALSE, code |-> "DANGEROUS_QUERY", rule |-> rule, keyword |-> kw]

\* the message of that AppError
RejectedMessage(v) ==
    IF v.rule = 1 THEN <<"Only SELECT queries are allowed for security reasons.">>
    ELSE IF v.rule = 2
    THEN <<"Query contains forbidden keyword: ">> \o v.keyword \o <<". Only SELECT queries are allowed.">>
    ELSE <<"Query contains potentially dangerous patterns.">>

validateSql(text) ==
    LET normalizedSql == toUpperCase(trim(text))
        hits == {k \in 1..Len(DANGEROUS_KEYWORDS) : WordMatch(text, DANGEROUS_KEYWORDS[k])}
    IN  IF ~startsWith(normalizedSql, W_SELECT) /\ ~startsWith(normalizedSql, W_WITH)
        THEN Rejected(1, <<>>)
        ELSE IF hits # {}
        THEN Rejected(2, DANGEROUS_KEYWORDS[CHOOSE k \in hits : \A m \in hits : k <= m])
        ELSE IF INJECTION_PATTERNS(text)
        THEN Rejected(3, <<>>)
        ELSE Accepted

\* .replace(/;+$/, ''): without the flag m, $ is the end of the text, so the match
\* is the whole run of semicolons that ends the text
StripTrailingSemicolons(s) ==
    LET other == {i \in 1..Len(s) : s[i] # ";"}
    IN  IF other = {} THEN <<>>
        ELSE SubSeq(s, 1, CHOOSE i \in other : \A j \in other : j <= i)

\* .replace(/\s+/g, ' '): every maximal run of whitespace becomes one space
CollapseWhitespace(s) ==
    LET marked == [i \in 1..Len(s) |->
                     IF ~IsWs(s[i]) THEN s[i]
                     ELSE IF i > 1 /\ IsWs(s[i - 1]) THEN "" ELSE " "]
    IN  SelectSeq(marked, LAMBDA c : c # "")

sanitizeSql(text) == CollapseWhitespace(StripTrailingSemicolons(trim(text)))

(***************************************************************************)
(* src/lib/utils/constants.ts                                              *)
(***************************************************************************)
SESSION_TTL_SECONDS == 4 * 60 * 60

QUERY_MAX_ROWS == 1000

DATABASE_TYPES == {"postgresql", "mysql", "sqlite", "sqlserver", "mongodb"}

\* the adapters that speak SQL
RelationalTypes == {"postgresql", "mysql", "sqlite", "sqlserver"}

(***************************************************************************)
(* Decimal text of a number (a template literal `${n}`) and the number a   *)
(* run of digits denotes (the backend reading LIMIT n / TOP n).            *)
(***************************************************************************)
RECURSIVE NumToStr(_)
NumToStr(n) == IF n < 10 THEN <<Digits[n + 1]>> ELSE NumToStr(n \div 10) \o <<Digits[(n % 10) + 1]>>

RECURSIVE StrToNum(_)
StrToNum(ds) ==
    IF ds = <<>> THEN 0
    ELSE 10 * StrToNum(SubSeq(ds, 1, Len(ds) - 1))
         + (CHOOSE d \in 0..9 : Digits[d + 1] = ds[Len(ds)])

IsDigits(s, i, j) == i <= j /\ \A k \in i..j : s[k] \in DigitSet

(***************************************************************************)
(* src/lib/utils/errors: class AppError extends Error.  An error is a      *)
(* record: app tells an AppError from any other Error, code is the code of *)
(* the AppError (the class name of any other Error), message is the text   *)
(* as the sequence of its parts, details holds details.originalError when  *)
(* the constructor was given one.                                          *)
(***************************************************************************)
NoError == [code |-> "none", app |-> FALSE, message |-> <<>>, details |-> <<>>]

\* new AppError(message, code, details)
AppError(message, code, details) ==
    [code |-> code, app |-> TRUE, message |-> message, details |-> details]

\* an Error that is not an AppError (a ZodError, a driver error, a missing key)
PlainError(name, message) ==
    [code |-> name, app |-> FALSE, message |-> message, details |-> <<>>]

\* the Error a driver raises when the named step fails
DriverError(what) == PlainError("Error", <<"driver: ", what>>)

(***************************************************************************)
(* Database adapters (src/lib/db): one record per adapter instance.        *)
(*   pool   - the adapter holds a pool / client / database handle          *)
(*   ready  - the handle getSchema and executeQuery test (pool, or db for  *)
(*            the MongoDB adapter)                                         *)
(*   schema - the cached Schema_t object: obj numbers the objects this     *)
(*            instance built, tables is the metadata it was built from;    *)
(*            NoSchema is null                                             *)
(*   fetches - metadata round trips this instance made so far              *)
(*   opened, closed - handles this instance opened and closed so far       *)
(***************************************************************************)
NoSchema == [obj |-> 0, tables |-> 0]

NoAdapter == [type |-> "none", pool |-> FALSE, ready |-> FALSE, schema |-> NoSchema,
              fetches |-> 0, opened |-> 0, closed |-> 0]

\* new PostgresAdapter(), new MySQLAdapter(), ... : all fields null
NewAdapter(type) == [NoAdapter EXCEPT !.type = type]

\* what the backend does when connect() reaches it
ConnectOutcomes == {"ok", "open_fails", "test_fails"}

\* the name each adapter's connect() puts in its own failure message
AdapterName(type) ==
    IF type = "postgresql" THEN "PostgreSQL"
    ELSE IF type = "mysql" THEN "MySQL"
    ELSE IF type = "sqlite" THEN "SQLite"
    ELSE IF type = "sqlserver" THEN "SQL Server"
    ELSE "MongoDB"

\* new AppError('Failed to connect to <name> database', 'CONNECTION_FAILED')
ConnectTestFailed(type) ==
    AppError(<<"Failed to connect to ", AdapterName(type), " database">>, "CONNECTION_FAILED", <<>>)

\* the catch of connect(): new AppError(error.message, 'CONNECTION_FAILED')
ConnectRewrapped(e) == AppError(e.message, "CONNECTION_FAILED", <<>>)

\* adapter.connect(config): the adapter afterwards, whether it threw, and the
\* error thrown (every throw of connect is an AppError with code CONNECTION_FAILED)
AdapterConnect(a, outcome) ==
    LET opened == [a EXCEPT !.pool = TRUE, !.ready = TRUE, !.opened = @ + 1]
    IN  IF a.type \in {"postgresql", "mysql"}
        THEN \* the pool is assigned before the test; testConnection() swallows the
             \* driver's error and a failed test throws outside any try
             [adapter |-> opened, threw |-> outcome # "ok",
              error |-> IF outcome = "ok" THEN NoError ELSE ConnectTestFailed(a.type)]
        ELSE IF a.type \in {"sqlite", "sqlserver"}
        THEN \* new Database(..) / await sql.connect(..) throws before the assignment
             IF outcome = "open_fails"
             THEN [adapter |-> a, threw |-> TRUE, error |-> ConnectRewrapped(DriverError("open"))]
             ELSE [adapter |-> opened, threw |-> outcome # "ok",
                   error |-> IF outcome = "ok" THEN NoError
                             ELSE ConnectRewrapped(ConnectTestFailed(a.type))]
        ELSE \* mongodb: the client is assigned, then client.connect() may throw before db is set
             IF outcome = "open_fails"
             THEN [adapter |-> [a EXCEPT !.pool = TRUE, !.opened = @ + 1], threw |-> TRUE,
                   error |-> ConnectRewrapped(DriverError("open"))]
             ELSE [adapter |-> opened, threw |-> outcome # "ok",
                   error |-> IF outcome = "ok" THEN NoError
                             ELSE ConnectRewrapped(ConnectTestFailed(a.type))]

\* disconnect() that closes the pool and keeps the cached schema
AdapterDisconnect_KeepSchema(a) ==
    IF a.pool
    THEN [a EXCEPT !.pool = FALSE, !.ready = FALSE, !.closed = @ + 1]
    ELSE a

\* adapter.disconnect()
AdapterDisconnect(a) ==
    IF a.pool
    THEN [a EXCEPT !.pool = FALSE, !.ready = FALSE, !.schema = NoSchema, !.closed = @ + 1]
    ELSE [a EXCEPT !.schema = NoSchema]

\* new AppError('Not connected to database', 'NO_CONNECTION')
NotConnected == AppError(<<"Not connected to database">>, "NO_CONNECTION", <<>>)

\* getSchema() without the test of this.schema
AdapterGetSchema_NoCache(a, driverOk, meta) ==
    IF ~a.ready
    THEN [adapter |-> a, threw |-> TRUE, error |-> NotConnected, schema |-> NoSchema]
    ELSE IF ~driverOk
    THEN [adapter |-> [a EXCEPT !.fetches = @ + 1], threw |-> TRUE,
          error |-> DriverError("metadata"), schema |-> NoSchema]
    ELSE LET built == [obj |-> a.fetches + 1, tables |-> meta]
         IN  [adapter |-> [a EXCEPT !.schema = built, !.fetches = @ + 1], threw |-> FALSE,
              error |-> NoError, schema |-> built]

\* adapter.getSchema() against a backend whose metadata is meta: the cached schema,
\* else NO_CONNECTION without a handle, else the metadata queries, whose driver
\* error is not wrapped
AdapterGetSchema(a, driverOk, meta) ==
    IF a.schema # NoSchema
    THEN [adapter |-> a, threw |-> FALSE, error |-> NoError, schema |-> a.schema]
    ELSE IF ~a.ready
    THEN [adapter |-> a, threw |-> TRUE, error |-> NotConnected, schema |-> NoSchema]
    ELSE IF ~driverOk
    THEN [adapter |-> [a EXCEPT !.fetches = @ + 1], threw |-> TRUE,
          error |-> DriverError("metadata"), schema |-> NoSchema]
    ELSE LET built == [obj |-> a.fetches + 1, tables |-> meta]
         IN  [adapter |-> [a EXCEPT !.schema = built, !.fetches = @ + 1], threw |-> FALSE,
              error |-> NoError, schema |-> built]

\* the statement the relational adapters hand to the driver
FinalSql(type, text) ==
    LET finalSql == trim(text)
        lower == toLowerCase(finalSql)
        isSelect == startsWith(lower, toLowerCase(W_SELECT))
    IN  IF type = "sqlserver"
        THEN IF isSelect /\ ~includes(lower, <<"t", "o", "p", " ">>)
             THEN W_SELECT \o <<" ">> \o W_TOP \o <<" ">> \o NumToStr(QUERY_MAX_ROWS)
                  \o SubSeq(finalSql, 7, Len(finalSql))
             ELSE finalSql
        ELSE IF isSelect /\ ~includes(lower, toLowerCase(W_LIMIT))
             THEN finalSql \o <<" ">> \o W_LIMIT \o <<" ">> \o NumToStr(QUERY_MAX_ROWS)
             ELSE finalSql

\* The backend: the rows a statement over a table of tableRows rows returns. A
\* closing "LIMIT n" (or a leading "SELECT TOP n" on SQL Server) cuts the result
\* to n rows; any other text returns every row.
LimitClause(s) ==
    {StrToNum(SubSeq(s, j, Len(s))) : j \in
        {j \in 1..Len(s) : /\ s[j] \in DigitSet
                           /\ IsDigits(s, j, Len(s))
                           /\ \E i \in 1..(j - 6) :
                                /\ OccursAtCI(s, i, W_LIMIT)
                                /\ (i = 1 \/ ~IsWordChar(s[i - 1]))
                                /\ WsRun(s, i + 5, j)}}

TopClause(s) ==
    IF ~OccursAtCI(s, 1, W_SELECT) THEN {}
    ELSE {StrToNum(SubSeq(s, j, CHOOSE k \in j..Len(s) :
                                    /\ IsDigits(s, j, k)
                                    /\ (k = Len(s) \/ s[k + 1] \notin DigitSet))) : j \in
            {j \in 12..Len(s) :
                /\ s[j] \in DigitSet
                /\ \E i \in 8..(j - 4) :
                     /\ OccursAtCI(s, i, W_TOP)
                     /\ WsRun(s, 7, i)
                     /\ WsRun(s, i + 3, j)}}

Min(a, b) == IF a <= b THEN a ELSE b

DriverRows(type, finalSql, tableRows) ==
    LET caps == IF type = "sqlserver" THEN TopClause(finalSql) ELSE LimitClause(finalSql)
    IN  IF caps = {} THEN tableRows ELSE Min(tableRows, CHOOSE n \in caps : TRUE)

\* a parser that takes any text for a JSON value
MayParseAsJson_Lenient(q) == TRUE

\* JSON.parse(query) can only succeed on a text that opens like a JSON value
MayParseAsJson(q) ==
    LET s == trim(q)
    IN  s # <<>> /\ s[1] \in {"{", "[", "\"", "-", "t", "f", "n"} \cup DigitSet

NoQuery == [called |-> FALSE, arg |-> <<>>, finalSql |-> <<>>, threw |-> FALSE,
            code |-> "none", error |-> NoError, cause |-> NoError, tableRows |-> 0,
            rowCount |-> 0]

\* the executeQuery call that threw e; cause is the error raised inside its try
\* block (NoError when the throw came from the guard before it)
QueryThrew(text, finalSql, cause, e) ==
    [NoQuery EXCEPT !.called = TRUE, !.arg = text, !.finalSql = finalSql, !.threw = TRUE,
                    !.code = e.code, !.error = e, !.cause = cause]

\* a catch that drops the error it caught
QueryRewrapped_NoDetails(e) == AppError(e.message, "INVALID_SQL", <<>>)

\* the catch of executeQuery: new AppError(error.message, 'INVALID_SQL', { originalError: error })
QueryRewrapped(e) == AppError(e.message, "INVALID_SQL", <<e>>)

\* the SyntaxError of JSON.parse
JsonSyntaxError == PlainError("SyntaxError", <<"Unexpected token in JSON">>)

\* throw new AppError(`Unsupported operation: ${operation}`, 'INVALID_SQL')
UnsupportedOperation(operation) ==
    AppError(<<"Unsupported operation: ", operation>>, "INVALID_SQL", <<>>)

\* what JSON.parse(query) and the operation field of its result come to
ParseResults == {"SyntaxError", "find", "aggregate", "drop"}

\* JSON.parse runs in the MongoDB adapter only
ParseInputs(a) == IF a.type = "mongodb" THEN ParseResults ELSE {"SyntaxError"}

\* adapter.executeQuery(sql) on a backend whose table holds tableRows rows; driverOk
\* tells whether the driver runs the statement or raises; parsed is the outcome of
\* JSON.parse in the MongoDB adapter
AdapterExecuteQuery(a, text, tableRows, driverOk, parsed) ==
    IF ~a.ready
    THEN QueryThrew(text, <<>>, NoError, NotConnected)
    ELSE IF a.type = "mongodb"
    THEN IF ~MayParseAsJson(text) \/ parsed = "SyntaxError"
         THEN QueryThrew(text, <<>>, JsonSyntaxError,
                         AppError(<<"Invalid MongoDB query format. Expected JSON.">>, "INVALID_SQL", <<>>))
         ELSE IF parsed \notin {"find", "aggregate"}
         THEN QueryThrew(text, <<>>, UnsupportedOperation(parsed),
                         QueryRewrapped(UnsupportedOperation(parsed)))
         ELSE IF ~driverOk
         THEN QueryThrew(text, <<>>, DriverError("query"), QueryRewrapped(DriverError("query")))
         ELSE [NoQuery EXCEPT !.called = TRUE, !.arg = text, !.finalSql = text,
                              !.tableRows = tableRows,
                              !.rowCount = Min(tableRows, QUERY_MAX_ROWS)]
    ELSE LET finalSql == FinalSql(a.type, text)
         IN  IF ~driverOk
             THEN QueryThrew(text, finalSql, DriverError("query"),
                             QueryRewrapped(DriverError("query")))
             ELSE [NoQuery EXCEPT !.called = TRUE, !.arg = text, !.finalSql = finalSql,
                                  !.tableRows = tableRows,
                                  !.rowCount = DriverRows(a.type, finalSql, tableRows)]

SUPPORTED_DATABASE_TYPES == <<"postgresql", "mysql", "sqlite", "sqlserver", "mongodb">>

\* Array.prototype.join
RECURSIVE Join(_, _)
Join(parts, sep) ==
    IF Len(parts) = 0 THEN <<>>
    ELSE IF Len(parts) = 1 THEN parts
    ELSE <<parts[1], sep>> \o Join(Tail(parts), sep)

\* a registry whose sqlserver entry builds a MySQLAdapter and that falls back to
\* a PostgresAdapter for a type it does not hold
createDatabaseAdapter_Misregistered(type) ==
    IF type \in DATABASE_TYPES
    THEN [threw |-> FALSE, adapter |-> NewAdapter(IF type = "sqlserver" THEN "mysql" ELSE type),
          error |-> NoError]
    ELSE [threw |-> FALSE, adapter |-> NewAdapter("postgresql"), error |-> NoError]

\* createDatabaseAdapter(config): the registry holds a constructor for each type
createDatabaseAdapter(type) ==
    IF type \in DATABASE_TYPES
    THEN [threw |-> FALSE, adapter |-> NewAdapter(type), error |-> NoError]
    ELSE [threw |-> TRUE, adapter |-> NoAdapter,
          error |-> AppError(<<"Unsupported database type: ", type, ". Supported types: ">>
                                 \o Join(SUPPORTED_DATABASE_TYPES, ", "),
                             "CONNECTION_FAILED", <<>>)]

(***************************************************************************)
(* src/lib/session/index.ts: the session cookie.  connection is "null" or  *)
(* the type of the stored ConnectionConfig; connectedAt is 0 for null.     *)
(***************************************************************************)
defaultSession == [connection |-> "null", connectedAt |-> 0]

\* a save that also stores the schema in the cookie
saveConnectionToSession_WithSchema(s, connection, t) ==
    [connection |-> connection, connectedAt |-> t, schema |-> TRUE]

saveConnectionToSession(s, connection, t) == [connection |-> connection, connectedAt |-> t]

getConnectionFromSession(s) == s.connection

clearSession(s) == [connection |-> "null", connectedAt |-> 0]

\* a check that looks at the stored config only
hasValidConnection_NoExpiry(s, t) == s.connection # "null" /\ s.connectedAt # 0

\* a check whose comparison admits the instant of expiry
hasValidConnection_Inclusive(s, t) ==
    s.connection # "null" /\ s.connectedAt # 0 /\ t - s.connectedAt <= SESSION_TTL_SECONDS * 1000

hasValidConnection(s, t) ==
    IF s.connection = "null" \/ s.connectedAt = 0
    THEN FALSE
    ELSE LET elapsed == t - s.connectedAt
             ttlMs == SESSION_TTL_SECONDS * 1000
         IN  elapsed < ttlMs

(***************************************************************************)
(* Bounded inputs.                                                         *)
(***************************************************************************)
\* texts handed to the validator's functions: every concatenation of at most
\* MaxFrags of these fragments
MaxFrags == 3

SqlFrags ==
    << <<"S", "E", "L", "E", "C", "T", " ">>,
       <<"w", "i", "t", "h", " ">>,
       <<" ">>,
       <<"\n">>,
       <<";">>,
       <<"x">>,
       <<"D", "R", "O", "P">>,
       <<"i", "n", "t", "o", " ">>,
       <<"G", "R", "A", "N", "T">>,
       <<"-", "-">>,
       <<"/", "*">>,
       <<"*", "/">>,
       <<"U", "N", "I", "O", "N", " ">>,
       <<"A", "L", "L", " ">>,
       <<"s", "e", "l", "e", "c", "t">> >>

RECURSIVE Concat(_)
Concat(fs) == IF fs = <<>> THEN <<>> ELSE SqlFrags[Head(fs)] \o Concat(Tail(fs))

SqlTexts == {Concat(fs) : fs \in UNION {[1..n -> 1..Len(SqlFrags)] : n \in 0..MaxFrags}}

\* the sql field of the bodies posted to /api/execute
T_SelectAll == <<"S", "E", "L", "E", "C", "T", " ", "*", " ", "F", "R", "O", "M", " ", "t">>
T_SelectLimit5000 == <<"S", "E", "L", "E", "C", "T", " ", "*", " ", "F", "R", "O", "M", " ", "t", " ", "L", "I", "M", "I", "T", " ", "5", "0", "0", "0">>
T_SelectLimit10 == <<"s", "e", "l", "e", "c", "t", " ", "*", " ", "f", "r", "o", "m", " ", "t", " ", "l", "i", "m", "i", "t", " ", "1", "0">>
T_SelectRateLimit == <<"S", "E", "L", "E", "C", "T", " ", "r", "a", "t", "e", "_", "l", "i", "m", "i", "t", " ", "F", "R", "O", "M", " ", "t">>
T_WithCte == <<"W", "I", "T", "H", " ", "c", " ", "A", "S", " ", "(", "S", "E", "L", "E", "C", "T", " ", "*", " ", "F", "R", "O", "M", " ", "t", ")", " ", "S", "E", "L", "E", "C", "T", " ", "*", " ", "F", "R", "O", "M", " ", "c">>
T_SelectStop == <<"S", "E", "L", "E", "C", "T", " ", "s", "t", "o", "p", " ", "F", "R", "O", "M", " ", "t">>
T_SelectTop5000 == <<"S", "E", "L", "E", "C", "T", " ", "T", "O", "P", " ", "5", "0", "0", "0", " ", "*", " ", "F", "R", "O", "M", " ", "t">>
T_DropTable == <<"D", "R", "O", "P", " ", "T", "A", "B", "L", "E", " ", "e", "m", "p", "l", "o", "y", "e", "e", "s">>
T_SelectThenDrop == <<"S", "E", "L", "E", "C", "T", " ", "*", " ", "F", "R", "O", "M", " ", "t", ";", " ", "D", "R", "O", "P", " ", "T", "A", "B", "L", "E", " ", "t">>
T_SelectComment == <<"S", "E", "L", "E", "C", "T", " ", "*", " ", "F", "R", "O", "M", " ", "t", " ", "-", "-", " ", "x">>
T_SelectSemicolon == <<"S", "E", "L", "E", "C", "T", " ", "*", " ", "F", "R", "O", "M", " ", "t", ";">>
T_SelectSpaceSemicolon == <<" ", " ", "S", "E", "L", "E", "C", "T", " ", " ", "*", "\n", "F", "R", "O", "M", " ", "t", " ", ";">>
T_Blank == <<" ">>
T_Empty == <<>>

ExecTexts ==
    { T_SelectAll, T_SelectLimit5000, T_SelectLimit10, T_SelectRateLimit,
      T_WithCte, T_SelectStop, T_SelectTop5000, T_DropTable,
      T_SelectThenDrop, T_SelectComment, T_SelectSemicolon, T_SelectSpaceSemicolon,
      T_Blank, T_Empty }

\* rows in the table a query reads
TableSizes == {10, 5000}

\* a MongoDB query document, and the texts handed to an adapter on its own
T_Json == <<"{", "}">>

AdapterTexts == {T_SelectAll, T_Json}

\* the types the factory is asked for
FactoryTypes == DATABASE_TYPES \cup {"oracle"}

\* the versions of the backend's metadata
MetadataVersions == {1, 2}

\* calls made on one adapter instance
MaxCalls == 4

\* the clock advances at most MaxTicks times, by one millisecond or by one
\* millisecond less than the session TTL
MaxTicks == 2

TickSteps == {1, SESSION_TTL_SECONDS * 1000 - 1}

(***************************************************************************)
(* src/middleware.ts: the rate limiter of the /api routes (the same         *)
(* functions stand in src/lib/utils/rateLimit.ts, where maxRequests and    *)
(* windowMs are parameters of checkRateLimit).                             *)
(*   A store maps a client id to its RateLimitEntry_t; NoEntry stands for  *)
(*   a key the Map does not hold.                                          *)
(***************************************************************************)
\* 60 * 1000 milliseconds: one minute
RATE_LIMIT_WINDOW_MS == 60000

\* 5 * 60 * 1000 milliseconds: five minutes
CLEANUP_INTERVAL_MS == 300000

\* maxRequests, the number of calls a window admits: RATE_LIMIT_MAX_REQUESTS is
\* 60 in the source
MaxRequests == 3

NoEntry == [count |-> 0, resetTime |-> 0]

\* the client ids the requests come to
ClientIds == {"10.0.0.1", "unknown"}

\* the proxy headers of a request ("" for a header that is not set;
\* x-forwarded-for is the list of its comma separated addresses)
NoHeaders == [forwarded |-> <<>>, realIp |-> "", cfIp |-> ""]

Headers ==
    { NoHeaders,
      [NoHeaders EXCEPT !.forwarded = <<"10.0.0.1", "172.16.0.9">>],
      [NoHeaders EXCEPT !.realIp = "10.0.0.1", !.cfIp = "172.16.0.9"],
      [NoHeaders EXCEPT !.cfIp = "10.0.0.1"] }

getClientIp(headers) ==
    IF headers.forwarded # <<>> THEN headers.forwarded[1]
    ELSE IF headers.realIp # "" THEN headers.realIp
    ELSE IF headers.cfIp # "" THEN headers.cfIp
    ELSE "unknown"

\* a sweep that empties the store
cleanupExpiredEntries_All(store, last, t) ==
    IF t - last < CLEANUP_INTERVAL_MS
    THEN [store |-> store, lastCleanup |-> last]
    ELSE [store |-> [k \in DOMAIN store |-> NoEntry], lastCleanup |-> t]

\* cleanupExpiredEntries() at time t: the store and lastCleanup it leaves
cleanupExpiredEntries(store, last, t) ==
    IF t - last < CLEANUP_INTERVAL_MS
    THEN [store |-> store, lastCleanup |-> last]
    ELSE [store |-> [k \in DOMAIN store |->
                        IF store[k] # NoEntry /\ store[k].resetTime < t THEN NoEntry
                        ELSE store[k]],
          lastCleanup |-> t]

\* a limiter whose comparison admits one call more
checkRateLimit_OffByOne(store, last, clientId, t) ==
    LET swept == cleanupExpiredEntries(store, last, t)
        entry == swept.store[clientId]
    IN  IF entry = NoEntry \/ entry.resetTime < t
        THEN [store |-> [swept.store EXCEPT ![clientId] =
                            [count |-> 1, resetTime |-> t + RATE_LIMIT_WINDOW_MS]],
              lastCleanup |-> swept.lastCleanup,
              allowed |-> TRUE, remaining |-> MaxRequests - 1,
              resetTime |-> t + RATE_LIMIT_WINDOW_MS]
        ELSE IF entry.count > MaxRequests
        THEN [store |-> swept.store, lastCleanup |-> swept.lastCleanup,
              allowed |-> FALSE, remaining |-> 0, resetTime |-> entry.resetTime]
        ELSE [store |-> [swept.store EXCEPT ![clientId].count = @ + 1],
              lastCleanup |-> swept.lastCleanup,
              allowed |-> TRUE, remaining |-> MaxRequests - (entry.count + 1),
              resetTime |-> entry.resetTime]

\* checkRateLimit(clientId) at time t: the store and lastCleanup it leaves and
\* the { allowed, remaining, resetTime } it returns
checkRateLimit(store, last, clientId, t) ==
    LET swept == cleanupExpiredEntries(store, last, t)
        entry == swept.store[clientId]
    IN  IF entry = NoEntry \/ entry.resetTime < t
        THEN [store |-> [swept.store EXCEPT ![clientId] =
                            [count |-> 1, resetTime |-> t + RATE_LIMIT_WINDOW_MS]],
              lastCleanup |-> swept.lastCleanup,
              allowed |-> TRUE, remaining |-> MaxRequests - 1,
              resetTime |-> t + RATE_LIMIT_WINDOW_MS]
        ELSE IF entry.count >= MaxRequests
        THEN [store |-> swept.store, lastCleanup |-> swept.lastCleanup,
              allowed |-> FALSE, remaining |-> 0, resetTime |-> entry.resetTime]
        ELSE [store |-> [swept.store EXCEPT ![clientId].count = @ + 1],
              lastCleanup |-> swept.lastCleanup,
              allowed |-> TRUE, remaining |-> MaxRequests - (entry.count + 1),
              resetTime |-> entry.resetTime]

\* the clock of the rate limiter advances by one millisecond, by the window or
\* by what is left of the cleanup interval after one window
RateSteps == {1, RATE_LIMIT_WINDOW_MS, CLEANUP_INTERVAL_MS - RATE_LIMIT_WINDOW_MS}

(***************************************************************************)
(* src/hooks/useQueryTabs.ts: the tabs of the query page.                  *)
(*   A tab is a QueryTab_t, its state reduced to state.status; a text is   *)
(*   "" for a blank text.  The id of a tab is a number, 0 standing for the *)
(*   '' of an activeTabId that is not set.                                 *)
(*   A callback runs on st, the state its updates have been queued on, and *)
(*   on c, the state of the render that created it, which it closes over:  *)
(*   both are records [tabs, activeTabId, isFixing, nextId, inflight,      *)
(*   full, threw].                                                         *)
(***************************************************************************)
\* createTab(): id stands for `tab-${Date.now()}-${Math.random()...}`
createTab(id) ==
    [id |-> id, name |-> <<>>, isRenamed |-> FALSE, question |-> "", sql |-> "",
     status |-> "idle"]

\* the undefined of an activeTab that does not exist
NoTab == createTab(0)

\* renumberTabs(tabs): the tabs not renamed are called Query 1, Query 2, ...
renumberTabs(list) ==
    [i \in 1..Len(list) |->
        IF list[i].isRenamed THEN list[i]
        ELSE [list[i] EXCEPT !.name =
                 <<"Query ", Cardinality({j \in 1..i : ~list[j].isRenamed})>>]]

\* tabs.findIndex((t) => t.id === id), counted from 0
findIndex(list, id) ==
    IF \E i \in 1..Len(list) : list[i].id = id
    THEN (CHOOSE i \in 1..Len(list) : list[i].id = id /\ \A j \in 1..(i - 1) : list[j].id # id) - 1
    ELSE -1

\* tabs.find((t) => t.id === activeTabId) || tabs[0]
activeTabOf(list, activeId) ==
    IF findIndex(list, activeId) >= 0 THEN list[findIndex(list, activeId) + 1]
    ELSE IF Len(list) > 0 THEN list[1]
    ELSE NoTab

\* { ...tab, ...updates }
Spread(tab, updates) ==
    [f \in DOMAIN tab |-> IF f \in DOMAIN updates THEN updates[f] ELSE tab[f]]

\* updateActiveTab(updates) of a render whose activeTabId is activeId, on the
\* tabs prev
updateActiveTab(prev, activeId, updates) ==
    [i \in 1..Len(prev) |->
        IF prev[i].id = activeId THEN Spread(prev[i], updates) ELSE prev[i]]

setActiveTab(st, c, id) == [st EXCEPT !.activeTabId = id]

addTab(st, c) ==
    LET newTab == createTab(st.nextId)
    IN  [st EXCEPT !.tabs = renumberTabs(Append(@, newTab)),
                   !.activeTabId = newTab.id,
                   !.nextId = @ + 1]

\* closeTab(id): activeTabId is the one of the render that created the callback
closeTab(st, c, id) ==
    IF Len(st.tabs) <= 1 THEN st
    ELSE LET newTabs == SelectSeq(st.tabs, LAMBDA tab : tab.id # id)
             closedIndex == findIndex(st.tabs, id)
             newActiveIndex == Min(closedIndex, Len(newTabs) - 1)
         IN  [st EXCEPT !.tabs = renumberTabs(newTabs),
                        !.activeTabId =
                            IF id # c.activeTabId THEN @
                            ELSE IF newActiveIndex \in 0..(Len(newTabs) - 1)
                            THEN newTabs[newActiveIndex + 1].id
                            ELSE 0]

renameTab(st, c, id, name) ==
    [st EXCEPT !.tabs = [i \in 1..Len(@) |->
                            IF @[i].id = id
                            THEN [@[i] EXCEPT !.name = <<name>>, !.isRenamed = TRUE]
                            ELSE @[i]]]

\* reorderTabs(fromIndex, toIndex), the indices counted from 0.  With a
\* fromIndex past the end splice removes nothing, movedTab is undefined and
\* renumberTabs throws a TypeError on it; a toIndex past the end appends.
reorderTabs(st, c, fromIndex, toIndex) ==
    IF fromIndex >= Len(st.tabs) THEN [st EXCEPT !.threw = TRUE]
    ELSE LET movedTab == st.tabs[fromIndex + 1]
             rest == [i \in 1..(Len(st.tabs) - 1) |->
                         IF i <= fromIndex THEN st.tabs[i] ELSE st.tabs[i + 1]]
             at == Min(toIndex, Len(rest))
             newTabs == [i \in 1..Len(st.tabs) |->
                            IF i <= at THEN rest[i]
                            ELSE IF i = at + 1 THEN movedTab
                            ELSE rest[i - 1]]
         IN  [st EXCEPT !.tabs = renumberTabs(newTabs)]

setQuestion(st, c, text) ==
    [st EXCEPT !.tabs = updateActiveTab(@, c.activeTabId, [question |-> text])]

setSql(st, c, text) ==
    [st EXCEPT !.tabs = updateActiveTab(@, c.activeTabId, [sql |-> text])]

\* no request
NoRequest == [kind |-> "none", target |-> 0, origin |-> 0]

Slots == {1, 2}

\* fetch(..): the request takes the first free slot (full tells that there was
\* none); target is the activeTabId the callback closes over, origin the id of
\* its activeTab
Fetch(st, c, kind) ==
    LET free == {k \in Slots : st.inflight[k] = NoRequest}
        slot == CHOOSE k \in free : \A m \in free : k <= m
    IN  IF free = {} THEN [st EXCEPT !.full = TRUE]
        ELSE [st EXCEPT !.inflight[slot] =
                 [kind |-> kind, target |-> c.activeTabId,
                  origin |-> activeTabOf(c.tabs, c.activeTabId).id]]

\* generateSql(), up to its await
generateSql(st, c) ==
    IF activeTabOf(c.tabs, c.activeTabId).question = "" THEN st
    ELSE Fetch([st EXCEPT !.tabs = updateActiveTab(@, c.activeTabId, [status |-> "generating"])],
               c, "generate")

\* executeSql(), up to its await
executeSql(st, c) ==
    IF activeTabOf(c.tabs, c.activeTabId).sql = "" THEN st
    ELSE Fetch([st EXCEPT !.tabs = updateActiveTab(@, c.activeTabId, [status |-> "executing"])],
               c, "execute")

\* fixSql(), up to its await
fixSql(st, c) ==
    IF \/ activeTabOf(c.tabs, c.activeTabId) = NoTab
       \/ activeTabOf(c.tabs, c.activeTabId).status # "error"
       \/ activeTabOf(c.tabs, c.activeTabId).sql = ""
    THEN st
    ELSE Fetch([st EXCEPT !.isFixing = TRUE], c, "fix")

\* a response handler that writes to the tab that is active when it runs
ResponseTarget_Current(request, activeId) == activeId

\* the activeTabId of the updateActiveTab a response handler calls: the one of
\* the render the request was issued from
ResponseTarget(request, activeId) == request.target

\* what the HTTP call of a request comes to: it resolves with a success
\* payload, resolves with a failure payload or a status that is not ok, or
\* rejects
FetchOutcomes == {"ok", "failure", "rejects"}

\* the rest of generateSql, executeSql or fixSql after its await: a fixSql
\* whose call failed logs the failure and updates no tab; its finally resets
\* isFixing
Settled(st, request, outcome) ==
    LET activeId == ResponseTarget(request, st.activeTabId)
        updates ==
            IF request.kind = "execute"
            THEN IF outcome = "ok" THEN [status |-> "success"] ELSE [status |-> "error"]
            ELSE IF outcome = "ok" THEN [sql |-> "SELECT 1", status |-> "editing"]
                 ELSE [status |-> "error"]
    IN  [st EXCEPT !.tabs = IF request.kind = "fix" /\ outcome # "ok" THEN @
                            ELSE updateActiveTab(@, activeId, updates),
                   !.isFixing = IF request.kind = "fix" THEN FALSE ELSE @]

\* the effect that runs after a render: an activeTabId that is not set becomes
\* the id of the first tab
MountEffect(st) ==
    IF Len(st.tabs) > 0 /\ st.activeTabId = 0
    THEN [st EXCEPT !.activeTabId = st.tabs[1].id]
    ELSE st

\* the ids createTab hands out, in this order
TabIds == {1, 2, 3}

\* a call of a callback of the hook with its arguments
Call(op, id, fromIndex, toIndex, text) ==
    [op |-> op, id |-> id, fromIndex |-> fromIndex, toIndex |-> toIndex, text |-> text]

\* the calls the tab bar can make on the render c
TabCalls(c) ==
    LET ids == {c.tabs[i].id : i \in 1..Len(c.tabs)}
        indices == 0..(Len(c.tabs) - 1)
    IN  {Call("addTab", 0, 0, 0, "")}
        \cup {Call(op, id, 0, 0, "") : op \in {"setActiveTab", "closeTab"}, id \in ids}
        \cup {Call("renameTab", id, 0, 0, "Totals") : id \in ids}
        \cup {Call("reorderTabs", 0, p[1], p[2], "") :
                   p \in {q \in indices \X indices : q[1] # q[2]}}

\* the calls the query panel can make
QueryCalls ==
    {Call(op, 0, 0, 0, "") : op \in {"generateSql", "executeSql", "fixSql"}}
    \cup {Call(op, 0, 0, 0, text) : op \in {"setQuestion", "setSql"}, text \in {"", "SELECT 1"}}

\* the callback runs
Apply(call, st, c) ==
    CASE call.op = "addTab" -> addTab(st, c)
      [] call.op = "closeTab" -> closeTab(st, c, call.id)
      [] call.op = "setActiveTab" -> setActiveTab(st, c, call.id)
      [] call.op = "renameTab" -> renameTab(st, c, call.id, call.text)
      [] call.op = "reorderTabs" -> reorderTabs(st, c, call.fromIndex, call.toIndex)
      [] call.op = "setQuestion" -> setQuestion(st, c, call.text)
      [] call.op = "setSql" -> setSql(st, c, call.text)
      [] call.op = "generateSql" -> generateSql(st, c)
      [] call.op = "executeSql" -> executeSql(st, c)
      [] call.op = "fixSql" -> fixSql(st, c)

\* the callbacks of one render run one after the other, each on the state the
\* one before it left, before the component renders again
RECURSIVE Run(_, _, _)
Run(calls, st, c) ==
    IF calls = <<>> THEN st
    ELSE Run(Tail(calls), Apply(Head(calls), st, c), c)

(***************************************************************************)
(* State.                                                                  *)
(*   now, ticks     - Date.now() and the number of clock advances          *)
(*   session        - the decrypted session cookie                         *)
(*   lastSavedAt    - the time of the last saveConnectionToSession, 0      *)
(*                    after clearSession                                   *)
(*   flow, pc       - the route handler of the request in flight (or of    *)
(*                    the last request) and its position                   *)
(*   isConnected    - the handler's local isConnected / hasConnection      *)
(*   rawSql, sql    - the handler's locals rawSql and sql                  *)
(*   verdict        - what validateSql(sql) did                            *)
(*   config         - the handler's local config (its type)                *)
(*   adapter        - the handler's adapter instance                       *)
(*   err            - the error propagating to the handler's catch         *)
(*   query          - the adapter.executeQuery call and its result         *)
(*   response       - the NextResponse returned                            *)
(*   trace          - the calls of the handler so far, in order            *)
(*   step, resanitized - position and second result when the validator's   *)
(*                    functions are applied on their own                   *)
(*   metadata       - the version of the backend's tables and columns      *)
(*   schemaResult   - what the last adapter.getSchema() returned           *)
(*   rateLimitStore, lastCleanup - the module state of src/middleware.ts   *)
(*   rateResult     - the client id and the answer of the last pass        *)
(*                    through the middleware                               *)
(*   allowedLog     - history: for each client id the times of its         *)
(*                    admitted calls that lie less than one window back    *)
(*   tabs, activeTabId, isFixing - the state of useQueryTabs as of its     *)
(*                    last render                                          *)
(*   nextId         - the id the next createTab() hands out                *)
(*   inflight       - the HTTP calls of the hook that have not settled     *)
(***************************************************************************)
VARIABLES now, ticks, session, lastSavedAt, flow, pc, isConnected,
          rawSql, sql, verdict, config, adapter, err, query, response, trace,
          step, resanitized, metadata, schemaResult,
          rateLimitStore, lastCleanup, rateResult, allowedLog,
          tabs, activeTabId, isFixing, nextId, inflight

vars == <<now, ticks, session, lastSavedAt, flow, pc, isConnected,
          rawSql, sql, verdict, config, adapter, err, query, response, trace,
          step, resanitized, metadata, schemaResult,
          rateLimitStore, lastCleanup, rateResult, allowedLog,
          tabs, activeTabId, isFixing, nextId, inflight>>

clockVars == <<now, ticks>>

sessionVars == <<session, lastSavedAt>>

requestVars == <<flow, isConnected, rawSql, sql, verdict, config>>

pureVars == <<step, resanitized>>

backendVars == <<metadata, schemaResult>>

rateVars == <<rateLimitStore, lastCleanup, rateResult, allowedLog>>

tabVars == <<tabs, activeTabId, isFixing, nextId, inflight>>

\* the state outside the route handlers
outsideVars == <<rateVars, tabVars>>

NoRateResult == [clientId |-> "none", allowed |-> FALSE, remaining |-> 0, resetTime |-> 0,
                 status |-> 0]

\* the state of src/middleware.ts when the module has been loaded
InitRate ==
    /\ rateLimitStore = [k \in ClientIds |-> NoEntry]
    /\ lastCleanup = 1
    /\ rateResult = NoRateResult
    /\ allowedLog = [k \in ClientIds |-> <<>>]

\* the state of useQueryTabs when the component has mounted and its effect has
\* run
InitTabs ==
    /\ tabs = renumberTabs(<<createTab(1)>>)
    /\ activeTabId = 1
    /\ isFixing = FALSE
    /\ nextId = 2
    /\ inflight = [k \in Slots |-> NoRequest]

NoResponse == [success |-> FALSE, status |-> 0, code |-> "none", message |-> <<>>, data |-> "none"]

Success(data) ==
    [success |-> TRUE, status |-> 200, code |-> "none", message |-> <<>>, data |-> data]

Failure(status, code, message) ==
    [success |-> FALSE, status |-> status, code |-> code, message |-> message, data |-> "none"]

\* the 401 of the session-bound handlers
NoSessionResponse ==
    Failure(401, "NO_CONNECTION", <<"No active database connection. Please connect first.">>)

\* the 400 when the session holds no connection config
NoConfigResponse(f) ==
    Failure(400, "NO_CONNECTION",
            IF f = "execute" THEN <<"Connection configuration not found. Please reconnect.">>
            ELSE <<"Connection config not available. Please reconnect.">>)

\* a ZodError of a request schema
ZodError == PlainError("ZodError", <<"zod: ", "issues">>)

\* executeSqlRequestSchema.parse(body): sql is a string of 1 to 10000 characters
executeSqlRequestSchema(raw) == Len(raw) >= 1 /\ Len(raw) <= 10000

\* the catch block of each route handler
CatchResponse(f, e) ==
    IF f = "execute" THEN Failure(400, IF e.app THEN e.code ELSE "INVALID_SQL", e.message)
    ELSE IF f \in {"generate", "fix", "explain", "chart"}
    THEN Failure(500, IF e.app THEN e.code ELSE "LLM_ERROR", e.message)
    ELSE IF f = "schema" THEN Failure(500, "UNKNOWN", <<"Failed to fetch schema">>)
    ELSE IF f \in {"connect", "demo"}
    THEN Failure(400, IF e.app THEN e.code ELSE "CONNECTION_FAILED", e.message)
    ELSE IF f = "status" THEN Success("not_connected")
    ELSE Failure(500, "UNKNOWN", <<"Failed to disconnect">>)

\* the success payload of each route handler
SuccessResponse(f) ==
    Success(IF f = "execute" THEN "rows"
            ELSE IF f \in {"generate", "fix"} THEN "sql"
            ELSE IF f = "schema" THEN "schema"
            ELSE IF f = "explain" THEN "explanation"
            ELSE IF f = "chart" THEN "suggestion"
            ELSE IF f = "disconnect" THEN "disconnected"
            ELSE "connected")

\* the handlers whose work runs in try { .. } finally { await adapter.disconnect() }
GuardedByFinally(f) == f \in {"execute", "generate", "fix", "schema"}

\* a handler without the finally block
AfterThrow_NoFinally(f) == "respond"

\* where control goes when a step after connect() throws
AfterThrow(f) == IF GuardedByFinally(f) THEN "disconnect" ELSE "respond"

\* where control goes when connect() returns
AfterConnect(f) ==
    IF f = "execute" THEN "executeQuery"
    ELSE IF f \in {"generate", "fix"} THEN "getSchemaContext"
    ELSE "getSchema"

\* the request text handed over as it arrived
ExecuteArg_Raw(raw, sanitized) == raw

\* the argument of adapter.executeQuery in the execute handler
ExecuteArg(raw, sanitized) == sanitized

\* a handler runs from its entry to its first await of the adapter (or to its
\* return): the values of its locals, what it returned and where it stands
Enter(f, connected, raw, sanitized, v, cfg, a, e, resp, calls, at) ==
    /\ flow' = f
    /\ isConnected' = connected
    /\ rawSql' = raw
    /\ sql' = sanitized
    /\ verdict' = v
    /\ config' = cfg
    /\ adapter' = a
    /\ err' = e
    /\ query' = NoQuery
    /\ response' = resp
    /\ trace' = calls
    /\ pc' = at
    /\ UNCHANGED <<clockVars, sessionVars, pureVars, outsideVars, backendVars>>

\* the 401 every session-bound handler returns when isConnected is false
Unauthorized(f) ==
    Enter(f, FALSE, <<>>, <<>>, Accepted, "null", NoAdapter, NoError,
          NoSessionResponse, <<"hasValidConnection">>, "idle")

\* a throw before the adapter exists, caught by the handler's catch
Thrown(f, connected, raw, sanitized, v, cfg, e, calls) ==
    Enter(f, connected, raw, sanitized, v, cfg, NoAdapter, e, CatchResponse(f, e), calls, "idle")

\* getConnectionFromSession, the 400 when it is null, createDatabaseAdapter
BuildAdapter(f, raw, sanitized, v, calls) ==
    LET cfg == getConnectionFromSession(session)
        made == createDatabaseAdapter(cfg)
        calls2 == calls \o <<"getConnectionFromSession">>
    IN  IF cfg = "null"
        THEN Enter(f, TRUE, raw, sanitized, v, cfg, NoAdapter, NoError,
                   NoConfigResponse(f), calls2, "idle")
        ELSE IF made.threw
        THEN Thrown(f, TRUE, raw, sanitized, v, cfg, made.error,
                    calls2 \o <<"createDatabaseAdapter">>)
        ELSE Enter(f, TRUE, raw, sanitized, v, cfg, made.adapter, NoError, NoResponse,
                   calls2 \o <<"createDatabaseAdapter">>, "connect")

(***************************************************************************)
(* Route handlers, from entry to the first adapter call.                   *)
(***************************************************************************)
\* sanitizeSql(rawSql) and validateSql(sql) for each posted text, computed once
SanitizedText == [raw \in ExecTexts |-> sanitizeSql(raw)]

\* a validator that lets every text through
TextVerdict_Accepting == [raw \in ExecTexts |-> Accepted]

TextVerdict == [raw \in ExecTexts |-> validateSql(SanitizedText[raw])]

\* POST /api/execute
ExecutePOST ==
    /\ pc = "idle"
    /\ \E raw \in ExecTexts :
        LET sanitized == SanitizedText[raw]
            v == TextVerdict[raw]
        IN  IF ~hasValidConnection(session, now) THEN Unauthorized("execute")
            ELSE IF ~executeSqlRequestSchema(raw)
            THEN Thrown("execute", TRUE, raw, <<>>, Accepted, "null", ZodError,
                        <<"hasValidConnection", "parse">>)
            ELSE IF ~v.ok
            THEN Thrown("execute", TRUE, raw, sanitized, v, "null", AppError(RejectedMessage(v), v.code, <<>>),
                        <<"hasValidConnection", "parse", "sanitizeSql", "validateSql">>)
            ELSE BuildAdapter("execute", raw, sanitized, v,
                        <<"hasValidConnection", "parse", "sanitizeSql", "validateSql">>)

\* POST /api/generate and POST /api/fix: same shape
SchemaContextPOST(f) ==
    /\ pc = "idle"
    /\ \E bodyOk \in BOOLEAN :
        IF ~hasValidConnection(session, now) THEN Unauthorized(f)
        ELSE IF ~bodyOk
        THEN Thrown(f, TRUE, <<>>, <<>>, Accepted, "null", ZodError,
                    <<"hasValidConnection", "parse">>)
        ELSE BuildAdapter(f, <<>>, <<>>, Accepted, <<"hasValidConnection", "parse">>)

GeneratePOST == SchemaContextPOST("generate")

FixPOST == SchemaContextPOST("fix")

\* GET /api/schema
SchemaGET ==
    /\ pc = "idle"
    /\ IF ~hasValidConnection(session, now) THEN Unauthorized("schema")
       ELSE BuildAdapter("schema", <<>>, <<>>, Accepted, <<"hasValidConnection">>)

\* POST /api/explain and POST /api/chart-suggest: no adapter, only the LLM
LlmOnlyPOST(f) ==
    /\ pc = "idle"
    /\ \E bodyOk \in BOOLEAN :
        IF ~hasValidConnection(session, now) THEN Unauthorized(f)
        ELSE IF ~bodyOk
        THEN Thrown(f, TRUE, <<>>, <<>>, Accepted, "null", ZodError,
                    <<"hasValidConnection", "parse">>)
        ELSE Enter(f, TRUE, <<>>, <<>>, Accepted, "null", NoAdapter, NoError, NoResponse,
                   <<"hasValidConnection", "parse">>, "llm")

ExplainPOST == LlmOnlyPOST("explain")

ChartSuggestPOST == LlmOnlyPOST("chart")

\* GET /api/session: never an error payload, connected: false instead
SessionGET ==
    /\ pc = "idle"
    /\ IF ~hasValidConnection(session, now)
       THEN Enter("status", FALSE, <<>>, <<>>, Accepted, "null", NoAdapter, NoError,
                  Success("not_connected"), <<"hasValidConnection">>, "idle")
       ELSE LET cfg == getConnectionFromSession(session)
                made == createDatabaseAdapter(cfg)
                calls == <<"hasValidConnection", "getConnectionFromSession">>
            IN  IF cfg = "null" \/ made.threw
                THEN Enter("status", TRUE, <<>>, <<>>, Accepted, cfg, NoAdapter, NoError,
                           Success("not_connected"), calls, "idle")
                ELSE Enter("status", TRUE, <<>>, <<>>, Accepted, cfg, made.adapter, NoError,
                           NoResponse, calls \o <<"createDatabaseAdapter">>, "connect")

\* POST /api/connect: no session check; the body names the database type
ConnectPOST ==
    /\ pc = "idle"
    /\ \E type \in DATABASE_TYPES \cup {"invalid"} :
        IF type \notin DATABASE_TYPES
        THEN Thrown("connect", FALSE, <<>>, <<>>, Accepted, "null", ZodError,
                    <<"validateConnectionConfig">>)
        ELSE Enter("connect", FALSE, <<>>, <<>>, Accepted, type,
                   createDatabaseAdapter(type).adapter, NoError, NoResponse,
                   <<"validateConnectionConfig", "createDatabaseAdapter">>, "connect")

\* POST /api/demo-connect: the demo PostgreSQL database of the environment
DemoConnectPOST ==
    /\ pc = "idle"
    /\ \E configured \in BOOLEAN :
        IF ~configured
        THEN Enter("demo", FALSE, <<>>, <<>>, Accepted, "null", NoAdapter, NoError,
                   Failure(500, "CONFIG_ERROR", <<"Demo database is not configured. Please contact the administrator.">>), <<>>, "idle")
        ELSE Enter("demo", FALSE, <<>>, <<>>, Accepted, "postgresql",
                   createDatabaseAdapter("postgresql").adapter, NoError, NoResponse,
                   <<"createDatabaseAdapter">>, "connect")

\* DELETE /api/connect
ConnectDELETE ==
    /\ pc = "idle"
    /\ \E ok \in BOOLEAN :
        /\ flow' = "disconnect"
        /\ isConnected' = FALSE
        /\ rawSql' = <<>>
        /\ sql' = <<>>
        /\ verdict' = Accepted
        /\ config' = "null"
        /\ adapter' = NoAdapter
        /\ query' = NoQuery
        /\ pc' = "idle"
        /\ trace' = <<"clearSession">>
        /\ IF ok
           THEN /\ session' = clearSession(session)
                /\ lastSavedAt' = 0
                /\ err' = NoError
                /\ response' = SuccessResponse("disconnect")
           ELSE /\ UNCHANGED sessionVars
                /\ err' = PlainError("Error", <<"iron-session: ", "destroy">>)
                /\ response' = CatchResponse("disconnect", err')
        /\ UNCHANGED <<clockVars, pureVars, outsideVars, backendVars>>

(***************************************************************************)
(* The awaited steps of a handler that holds an adapter.                   *)
(***************************************************************************)
\* await adapter.connect(config)
ConnectStep ==
    /\ pc = "connect"
    /\ \E outcome \in ConnectOutcomes :
        LET r == AdapterConnect(adapter, outcome)
        IN  /\ adapter' = r.adapter
            /\ IF r.threw
               THEN /\ err' = r.error
                    /\ trace' = trace \o <<"connect", "connect:failed">>
                    /\ pc' = "respond"
               ELSE /\ err' = err
                    /\ trace' = Append(trace, "connect")
                    /\ pc' = AfterConnect(flow)
    /\ UNCHANGED <<clockVars, sessionVars, requestVars, query, response, pureVars, outsideVars, backendVars>>

\* await adapter.executeQuery(sql)
ExecuteQueryStep ==
    /\ pc = "executeQuery"
    /\ \E tableRows \in TableSizes, driverOk \in BOOLEAN, parsed \in ParseInputs(adapter) :
        LET q == AdapterExecuteQuery(adapter, ExecuteArg(rawSql, sql), tableRows, driverOk, parsed)
        IN  /\ query' = q
            /\ err' = IF q.threw THEN q.error ELSE err
            /\ pc' = IF q.threw THEN AfterThrow(flow) ELSE "disconnect"
    /\ trace' = Append(trace, "executeQuery")
    /\ UNCHANGED <<clockVars, sessionVars, requestVars, adapter, response, pureVars, outsideVars, backendVars>>

\* await adapter.getSchemaContext(): getSchema, then the rendering
GetSchemaContextStep ==
    /\ pc = "getSchemaContext"
    /\ \E driverOk \in BOOLEAN :
        LET r == AdapterGetSchema(adapter, driverOk, metadata)
        IN  /\ adapter' = r.adapter
            /\ schemaResult' = r.schema
            /\ err' = IF r.threw THEN r.error ELSE err
            /\ pc' = IF r.threw THEN AfterThrow(flow) ELSE "llm"
    /\ trace' = Append(trace, "getSchemaContext")
    /\ UNCHANGED <<clockVars, sessionVars, requestVars, query, response, pureVars, outsideVars, metadata>>

\* await adapter.getSchema()
GetSchemaStep ==
    /\ pc = "getSchema"
    /\ \E driverOk \in BOOLEAN :
        LET r == AdapterGetSchema(adapter, driverOk, metadata)
        IN  /\ adapter' = r.adapter
            /\ schemaResult' = r.schema
            /\ err' = IF r.threw THEN r.error ELSE err
            /\ pc' = IF r.threw THEN AfterThrow(flow)
                     ELSE IF flow \in {"connect", "demo"} THEN "save" ELSE "disconnect"
    /\ trace' = Append(trace, "getSchema")
    /\ UNCHANGED <<clockVars, sessionVars, requestVars, query, response, pureVars, outsideVars, metadata>>

\* ensureLlmInitialized(), then the completion call of the handler
LlmStep ==
    /\ pc = "llm"
    /\ \E outcome \in {"ok", "no_key", "llm_error"} :
        /\ err' = IF outcome = "no_key"
                  THEN PlainError("Error", <<"GROQ_API_KEY environment variable is not set">>)
                  ELSE IF outcome = "llm_error"
                  THEN AppError(<<"llm: ", "request failed">>, "LLM_ERROR", <<>>)
                  ELSE err
        /\ trace' = IF outcome = "no_key" THEN Append(trace, "ensureLlmInitialized")
                    ELSE trace \o <<"ensureLlmInitialized", "llm">>
        /\ pc' = IF outcome # "ok" THEN AfterThrow(flow)
                 ELSE IF GuardedByFinally(flow) THEN "disconnect" ELSE "respond"
    /\ UNCHANGED <<clockVars, sessionVars, requestVars, adapter, query, response, pureVars, outsideVars, backendVars>>

\* await saveConnectionToSession(config)
SaveSessionStep ==
    /\ pc = "save"
    /\ \E ok \in BOOLEAN :
        IF ok
        THEN /\ session' = saveConnectionToSession(session, config, now)
             /\ lastSavedAt' = now
             /\ err' = err
             /\ pc' = "disconnect"
        ELSE /\ UNCHANGED sessionVars
             /\ err' = PlainError("Error", <<"iron-session: ", "save">>)
             /\ pc' = AfterThrow(flow)
    /\ trace' = Append(trace, "saveConnectionToSession")
    /\ UNCHANGED <<clockVars, requestVars, adapter, query, response, pureVars, outsideVars, backendVars>>

\* await adapter.disconnect()
DisconnectStep ==
    /\ pc = "disconnect"
    /\ adapter' = AdapterDisconnect(adapter)
    /\ trace' = Append(trace, "disconnect")
    /\ pc' = "respond"
    /\ UNCHANGED <<clockVars, sessionVars, requestVars, err, query, response, pureVars, outsideVars, backendVars>>

\* the handler returns its NextResponse
Respond ==
    /\ pc = "respond"
    /\ response' = IF err = NoError THEN SuccessResponse(flow) ELSE CatchResponse(flow, err)
    /\ pc' = "idle"
    /\ UNCHANGED <<clockVars, sessionVars, requestVars, adapter, err, query, trace, pureVars, outsideVars, backendVars>>

\* time passes
Tick ==
    /\ ticks < MaxTicks
    /\ \E d \in TickSteps : now' = now + d
    /\ ticks' = ticks + 1
    /\ UNCHANGED <<sessionVars, requestVars, pc, adapter, err, query, response, trace, pureVars, outsideVars, backendVars>>

InitHandlers ==
    /\ now = 1
    /\ ticks = 0
    /\ session = defaultSession
    /\ lastSavedAt = 0
    /\ flow = "none"
    /\ pc = "idle"
    /\ isConnected = FALSE
    /\ rawSql = <<>>
    /\ sql = <<>>
    /\ verdict = Accepted
    /\ config = "null"
    /\ adapter = NoAdapter
    /\ err = NoError
    /\ query = NoQuery
    /\ response = NoResponse
    /\ trace = <<>>
    /\ step = "none"
    /\ resanitized = <<>>
    /\ metadata = 1
    /\ schemaResult = NoSchema

Init ==
    /\ InitHandlers
    /\ InitRate
    /\ InitTabs

Next ==
    \/ ExecutePOST
    \/ GeneratePOST
    \/ FixPOST
    \/ SchemaGET
    \/ ExplainPOST
    \/ ChartSuggestPOST
    \/ SessionGET
    \/ ConnectPOST
    \/ DemoConnectPOST
    \/ ConnectDELETE
    \/ ConnectStep
    \/ ExecuteQueryStep
    \/ GetSchemaContextStep
    \/ GetSchemaStep
    \/ LlmStep
    \/ SaveSessionStep
    \/ DisconnectStep
    \/ Respond
    \/ Tick

Spec == Init /\ [][Next]_vars

(***************************************************************************)
(* The validator's functions applied to a text on their own: sanitizeSql,  *)
(* sanitizeSql on its own result, and validateSql.                         *)
(***************************************************************************)
InitSql ==
    /\ rawSql \in SqlTexts
    /\ step = "input"
    /\ sql = <<>>
    /\ resanitized = <<>>
    /\ verdict = Accepted
    /\ now = 1
    /\ ticks = 0
    /\ session = defaultSession
    /\ lastSavedAt = 0
    /\ flow = "none"
    /\ pc = "idle"
    /\ isConnected = FALSE
    /\ config = "null"
    /\ adapter = NoAdapter
    /\ err = NoError
    /\ query = NoQuery
    /\ response = NoResponse
    /\ trace = <<>>
    /\ metadata = 1
    /\ schemaResult = NoSchema
    /\ InitRate
    /\ InitTabs

flowVars == <<now, ticks, session, lastSavedAt, flow, pc, isConnected,
              config, adapter, err, query, response, trace, backendVars, outsideVars>>

ApplySanitize ==
    /\ step = "input"
    /\ sql' = sanitizeSql(rawSql)
    /\ step' = "sanitized"
    /\ UNCHANGED <<rawSql, resanitized, verdict, flowVars>>

ApplySanitizeAgain ==
    /\ step = "sanitized"
    /\ resanitized' = sanitizeSql(sql)
    /\ step' = "resanitized"
    /\ UNCHANGED <<rawSql, sql, verdict, flowVars>>

ApplyValidate ==
    /\ step = "input"
    /\ verdict' = validateSql(rawSql)
    /\ step' = "validated"
    /\ UNCHANGED <<rawSql, sql, resanitized, flowVars>>

NextSql == ApplySanitize \/ ApplySanitizeAgain \/ ApplyValidate

SpecSql == InitSql /\ [][NextSql]_vars

(***************************************************************************)
(* An adapter on its own: the factory builds an instance and a caller      *)
(* invokes its methods in any order, while the backend's metadata may      *)
(* change.  err is the error the last call threw (NoError when it          *)
(* returned), trace the calls on the current instance since the factory    *)
(* built it.                                                               *)
(***************************************************************************)
callerVars == <<now, ticks, session, lastSavedAt, flow, pc, isConnected,
                rawSql, sql, verdict, response, pureVars, outsideVars>>

\* const adapter = createDatabaseAdapter(config)
Create ==
    /\ \E type \in FactoryTypes :
        LET made == createDatabaseAdapter(type)
        IN  /\ config' = type
            /\ adapter' = made.adapter
            /\ err' = made.error
    /\ query' = NoQuery
    /\ schemaResult' = NoSchema
    /\ trace' = <<"createDatabaseAdapter">>
    /\ UNCHANGED <<callerVars, metadata>>

\* a call may be made on the instance the factory returned
MayCall == adapter.type # "none" /\ Len(trace) <= MaxCalls

Connect ==
    /\ MayCall
    /\ \E outcome \in ConnectOutcomes :
        LET r == AdapterConnect(adapter, outcome)
        IN  /\ adapter' = r.adapter
            /\ err' = r.error
            /\ trace' = IF r.threw THEN trace \o <<"connect", "connect:failed">>
                        ELSE Append(trace, "connect")
    /\ UNCHANGED <<callerVars, config, query, backendVars>>

Disconnect ==
    /\ MayCall
    /\ adapter' = AdapterDisconnect(adapter)
    /\ err' = NoError
    /\ trace' = Append(trace, "disconnect")
    /\ UNCHANGED <<callerVars, config, query, backendVars>>

GetSchema ==
    /\ MayCall
    /\ \E driverOk \in BOOLEAN :
        LET r == AdapterGetSchema(adapter, driverOk, metadata)
        IN  /\ adapter' = r.adapter
            /\ err' = r.error
            /\ schemaResult' = r.schema
    /\ trace' = Append(trace, "getSchema")
    /\ UNCHANGED <<callerVars, config, query, metadata>>

ExecuteQuery ==
    /\ MayCall
    /\ \E text \in AdapterTexts, driverOk \in BOOLEAN, parsed \in ParseInputs(adapter) :
        LET q == AdapterExecuteQuery(adapter, text, 5000, driverOk, parsed)
        IN  /\ query' = q
            /\ err' = q.error
    /\ trace' = Append(trace, "executeQuery")
    /\ UNCHANGED <<callerVars, config, adapter, backendVars>>

\* a table or a column is added on the backend
ChangeMetadata ==
    /\ \E v \in MetadataVersions : v > metadata /\ metadata' = v
    /\ UNCHANGED <<callerVars, config, adapter, err, query, trace, schemaResult>>

NextAdapter ==
    \/ Create
    \/ Connect
    \/ Disconnect
    \/ GetSchema
    \/ ExecuteQuery
    \/ ChangeMetadata

SpecAdapter == Init /\ [][NextAdapter]_vars

(***************************************************************************)
(* The rate limiter on its own: requests of two clients pass through the   *)
(* middleware while time passes.                                           *)
(***************************************************************************)
\* the admitted calls in log that lie less than one window before t
Recent(log, t) == SelectSeq(log, LAMBDA at : at > t - RATE_LIMIT_WINDOW_MS)

\* middleware(request) for a request the matcher '/api/:path*' selects
Middleware ==
    /\ \E headers \in Headers :
        LET clientIp == getClientIp(headers)
            r == checkRateLimit(rateLimitStore, lastCleanup, clientIp, now)
        IN  /\ rateLimitStore' = r.store
            /\ lastCleanup' = r.lastCleanup
            /\ rateResult' = [clientId |-> clientIp, allowed |-> r.allowed,
                              remaining |-> r.remaining, resetTime |-> r.resetTime,
                              status |-> IF r.allowed THEN 200 ELSE 429]
            /\ allowedLog' = [allowedLog EXCEPT ![clientIp] =
                                 IF r.allowed THEN Append(Recent(@, now), now)
                                 ELSE Recent(@, now)]
    /\ UNCHANGED <<clockVars, sessionVars, requestVars, pc, adapter, err, query, response,
                   trace, pureVars, backendVars, tabVars>>

\* time passes between two requests
Elapse ==
    /\ ticks < MaxTicks
    /\ \E d \in RateSteps : now' = now + d
    /\ ticks' = ticks + 1
    /\ allowedLog' = [k \in ClientIds |-> Recent(allowedLog[k], now')]
    /\ UNCHANGED <<rateLimitStore, lastCleanup, rateResult>>
    /\ UNCHANGED <<sessionVars, requestVars, pc, adapter, err, query, response,
                   trace, pureVars, backendVars, tabVars>>

NextRate ==
    \/ Middleware
    \/ Elapse

SpecRate == Init /\ [][NextRate]_vars

(***************************************************************************)
(* The hook on its own: the page calls its callbacks, one or two in the    *)
(* handler of an event, and the HTTP calls settle in any order.            *)
(***************************************************************************)
\* the state of the last render
Hook ==
    [tabs |-> tabs, activeTabId |-> activeTabId, isFixing |-> isFixing, nextId |-> nextId,
     inflight |-> inflight, full |-> FALSE, threw |-> FALSE]

\* the state st is rendered (an update that threw is not: the error leaves
\* the page)
Render(st) ==
    /\ ~st.full /\ ~st.threw
    /\ \A i \in 1..Len(st.tabs) : st.tabs[i].id \in TabIds
    /\ tabs' = st.tabs
    /\ activeTabId' = st.activeTabId
    /\ isFixing' = st.isFixing
    /\ nextId' = st.nextId
    /\ inflight' = st.inflight
    /\ UNCHANGED <<clockVars, sessionVars, requestVars, pc, adapter, err, query, response,
                   trace, pureVars, backendVars, rateVars>>

\* the handler of an event makes the calls, the component renders and its
\* effect runs
Event(calls) == Render(MountEffect(Run(calls, Hook, Hook)))

AddTab == Event(<<Call("addTab", 0, 0, 0, "")>>)

CloseTab == \E call \in TabCalls(Hook) : call.op = "closeTab" /\ Event(<<call>>)

SetActiveTab == \E call \in TabCalls(Hook) : call.op = "setActiveTab" /\ Event(<<call>>)

RenameTab == \E call \in TabCalls(Hook) : call.op = "renameTab" /\ Event(<<call>>)

ReorderTabs == \E call \in TabCalls(Hook) : call.op = "reorderTabs" /\ Event(<<call>>)

SetQuestion == \E call \in QueryCalls : call.op = "setQuestion" /\ Event(<<call>>)

SetSql == \E call \in QueryCalls : call.op = "setSql" /\ Event(<<call>>)

GenerateSql == Event(<<Call("generateSql", 0, 0, 0, "")>>)

ExecuteSql == Event(<<Call("executeSql", 0, 0, 0, "")>>)

FixSql == Event(<<Call("fixSql", 0, 0, 0, "")>>)

\* two calls of setActiveTab or closeTab before the component renders again
Batch ==
    \E first \in TabCalls(Hook), second \in TabCalls(Hook) :
        /\ first.op \in {"setActiveTab", "closeTab"}
        /\ second.op \in {"setActiveTab", "closeTab"}
        /\ Event(<<first, second>>)

\* the HTTP call in the slot settles and the rest of its async function runs
Settle(slot) ==
    /\ inflight[slot] # NoRequest
    /\ \E outcome \in FetchOutcomes :
          Render([Settled(Hook, inflight[slot], outcome) EXCEPT !.inflight[slot] = NoRequest])

\* the tab bar on its own
NextTabs ==
    \/ AddTab
    \/ CloseTab
    \/ SetActiveTab
    \/ RenameTab
    \/ ReorderTabs
    \/ Batch

SpecTabs == Init /\ [][NextTabs]_vars

\* two tabs are open, the second one active, and the third has been closed
InitQuery ==
    /\ InitHandlers
    /\ InitRate
    /\ tabs = renumberTabs(<<createTab(1), createTab(2)>>)
    /\ activeTabId = 2
    /\ isFixing = FALSE
    /\ nextId = 4
    /\ inflight = [k \in Slots |-> NoRequest]

\* the query panel with two tabs open
NextQuery ==
    \/ SetActiveTab
    \/ CloseTab
    \/ Batch
    \/ SetQuestion
    \/ SetSql
    \/ GenerateSql
    \/ ExecuteSql
    \/ FixSql
    \/ \E slot \in Slots : Settle(slot)

SpecQuery == InitQuery /\ [][NextQuery]_vars

\* a promise that can settle does settle
SpecQueryFair == SpecQuery /\ \A slot \in Slots : WF_vars(Settle(slot))

(***************************************************************************)
(* Properties of the request flows (specification Spec).                   *)
(***************************************************************************)
Called(x) == \E i \in 1..Len(trace) : trace[i] = x

Count(x) == Cardinality({i \in 1..Len(trace) : trace[i] = x})

\* the position of the first call of x in the trace
Index(x) == CHOOSE i \in 1..Len(trace) : trace[i] = x /\ \A j \in 1..(i - 1) : trace[j] # x

FinallyFlows == {"execute", "generate", "fix", "schema"}

SessionFlows == {"execute", "generate", "fix", "schema", "explain", "chart"}

ConnectSucceeded == Called("connect") /\ ~Called("connect:failed")

\* C1: in the execute, generate, fix and get-schema flows, once connect() has
\* succeeded, disconnect() is called at most once while the request runs, and
\* exactly once, as the last call, by the time the response is returned,
\* whether the step after connect returned or threw.
C1_DisconnectExactlyOnce ==
    flow \in FinallyFlows /\ ConnectSucceeded =>
        /\ Count("disconnect") <= 1
        /\ adapter.closed <= 1
        /\ pc \in {"respond", "idle"} =>
              /\ Count("disconnect") = 1
              /\ trace[Len(trace)] = "disconnect"
              /\ adapter.closed = 1
              /\ ~adapter.pool
        /\ pc = "idle" => response # NoResponse

\* the execute handler returned after executeQuery threw, and disconnect ran once
C1_Witness ==
    /\ flow = "execute"
    /\ pc = "idle"
    /\ ConnectSucceeded
    /\ query.called /\ query.threw
    /\ response.code = "INVALID_SQL"
    /\ Count("disconnect") = 1

\* C2 (as stated): in the execute flow with a valid session, every text the
\* validator rejects is answered with DANGEROUS_QUERY, and no adapter is
\* created or connected.
C2_EveryRejectedTextIsDangerousQuery ==
    flow = "execute" /\ isConnected /\ ~validateSql(rawSql).ok =>
        /\ pc = "idle"
        /\ response.code = "DANGEROUS_QUERY"
        /\ ~Called("createDatabaseAdapter") /\ ~Called("connect")
        /\ adapter = NoAdapter

\* C2 (amended): in the execute flow with a valid session, every text the
\* validator rejects is answered with a failure of status 400 and no adapter is
\* created or connected; the failure is DANGEROUS_QUERY when the text has
\* between 1 and 10000 characters, and INVALID_SQL when the request schema
\* refuses it first.
C2_RejectedTextNeverReachesAdapter ==
    flow = "execute" /\ isConnected /\ ~validateSql(rawSql).ok =>
        /\ pc = "idle"
        /\ ~response.success /\ response.status = 400
        /\ response.code = IF Len(rawSql) >= 1 /\ Len(rawSql) <= 10000
                           THEN "DANGEROUS_QUERY" ELSE "INVALID_SQL"
        /\ ~Called("createDatabaseAdapter") /\ ~Called("connect")
        /\ adapter = NoAdapter

\* "DROP TABLE employees" was posted with a valid session and refused
C2_Witness ==
    /\ flow = "execute"
    /\ isConnected
    /\ rawSql = T_DropTable
    /\ response.code = "DANGEROUS_QUERY"
    /\ ~Called("createDatabaseAdapter")

\* C3 (as stated): every result a relational adapter's executeQuery returns
\* has rowCount <= 1000, whatever the query text.
C3_RowCountAtMostMaxRows ==
    query.called /\ ~query.threw /\ adapter.type \in RelationalTypes =>
        query.rowCount <= 1000

\* C8: in the execute flow the adapter is only created after sanitizeSql and
\* then validateSql ran, once each and in that order, on the posted text; the
\* text validateSql accepted is sanitizeSql(rawSql), and it is the text handed to
\* adapter.executeQuery.
C8_SanitizeValidateExecute ==
    /\ flow = "execute" /\ Called("createDatabaseAdapter") =>
          /\ Count("sanitizeSql") = 1
          /\ Count("validateSql") = 1
          /\ Index("sanitizeSql") < Index("validateSql")
          /\ Index("validateSql") < Index("createDatabaseAdapter")
          /\ \A i \in 1..Len(trace) :
                trace[i] \in {"connect", "executeQuery", "disconnect"} =>
                    Index("createDatabaseAdapter") < i
          /\ sql = sanitizeSql(rawSql)
          /\ validateSql(sql).ok
    /\ flow = "execute" /\ query.called =>
          /\ Called("createDatabaseAdapter")
          /\ query.arg = sanitizeSql(rawSql)

\* a query ran whose posted text differs from the text the adapter was given
C8_Witness ==
    /\ flow = "execute"
    /\ query.called /\ ~query.threw
    /\ rawSql # query.arg
    /\ query.arg = sanitizeSql(rawSql)

\* the session holds a config saved less than four hours before time t
SessionUnexpired(t) ==
    /\ session.connection # "null"
    /\ lastSavedAt # 0
    /\ t - lastSavedAt < 4 * 60 * 60 * 1000

\* C9: when a request of one of the six session-bound flows arrives and the
\* session has no config or has expired, the handler returns 401 NO_CONNECTION
\* at once: no adapter is built, nothing is connected and the LLM is not called.
C9_NoSessionNoWork ==
    [][ (pc = "idle" /\ ticks' = ticks /\ flow' \in SessionFlows /\ ~SessionUnexpired(now)) =>
            /\ pc' = "idle"
            /\ response' = NoSessionResponse
            /\ adapter' = NoAdapter
            /\ \A i \in 1..Len(trace') :
                  trace'[i] \notin {"createDatabaseAdapter", "connect", "llm",
                                    "getConnectionFromSession"} ]_vars

\* a session-bound request was refused with 401 although a config is stored: the
\* session had expired
C9_Witness ==
    /\ flow \in SessionFlows
    /\ pc = "idle"
    /\ response = NoSessionResponse
    /\ session.connection # "null"
    /\ now - lastSavedAt >= 4 * 60 * 60 * 1000

\* C10: hasValidConnection() is true exactly when the session holds a config and
\* less than four hours have passed since the last saveConnectionToSession; the
\* stored time is the time of that save, whatever requests used the session
\* since, and after clearSession() nothing is stored.
C10_ValidIffSavedWithinTtl ==
    /\ hasValidConnection(session, now) <=> SessionUnexpired(now)
    /\ session.connection # "null" => session.connectedAt = lastSavedAt
    /\ lastSavedAt = 0 => session = defaultSession

\* exactly four hours after the save, after a request used the session, the
\* session is no longer valid
C10_Witness ==
    /\ session.connection # "null"
    /\ now - lastSavedAt = 4 * 60 * 60 * 1000
    /\ ~hasValidConnection(session, now)
    /\ flow \in SessionFlows
    /\ response = NoSessionResponse

(***************************************************************************)
(* Properties of the validator's functions (specification SpecSql).        *)
(***************************************************************************)
\* word occurs in text at position j, compared without regard to case
MatchesAt(text, j, word) ==
    /\ j >= 1
    /\ j + Len(word) - 1 <= Len(text)
    /\ \A k \in 1..Len(word) : LowerChar(text[j + k - 1]) = LowerChar(word[k])

\* the positions i..(j - 1) of text hold whitespace only
Blank(text, i, j) == \A k \in i..(j - 1) : text[k] \in {" ", "\t", "\n"}

\* text, after its leading whitespace, begins with word
BeginsWith(text, word) ==
    \E p \in 1..Len(text) : Blank(text, 1, p) /\ ~Blank(text, p, p + 1) /\ MatchesAt(text, p, word)

BeginsWithSelectOrWith(text) == BeginsWith(text, W_SELECT) \/ BeginsWith(text, W_WITH)

\* the words of text: its maximal runs of letters, digits and underscores, in
\* upper case
WordStarts(text) ==
    {i \in 1..Len(text) : text[i] \in WordChars /\ (i = 1 \/ text[i - 1] \notin WordChars)}

WordEnd(text, i) ==
    CHOOSE j \in i..Len(text) :
        /\ \A k \in i..j : text[k] \in WordChars
        /\ (j = Len(text) \/ text[j + 1] \notin WordChars)

Words(text) == {toUpperCase(SubSeq(text, i, WordEnd(text, i))) : i \in WordStarts(text)}

\* the dangerous keywords, by their position in the list, that are words of text
KeywordsPresent(text) ==
    {k \in 1..Len(DANGEROUS_KEYWORDS) : DANGEROUS_KEYWORDS[k] \in Words(text)}

\* C4: validateSql fails with DANGEROUS_QUERY on every text that, trimmed and
\* compared without regard to case, does not begin with SELECT or WITH; every
\* text it accepts begins with SELECT or WITH.
C4_MustBeginWithSelectOrWith ==
    step = "validated" =>
        /\ ~BeginsWithSelectOrWith(rawSql) =>
              ~verdict.ok /\ verdict.code = "DANGEROUS_QUERY" /\ verdict.rule = 1
        /\ verdict.ok => BeginsWithSelectOrWith(rawSql)

\* a text that holds SELECT, but not at its beginning, was refused
C4_Witness ==
    /\ step = "validated"
    /\ ~BeginsWithSelectOrWith(rawSql)
    /\ \E j \in 2..Len(rawSql) : MatchesAt(rawSql, j, W_SELECT)
    /\ ~verdict.ok /\ verdict.rule = 1

SemicolonThenKeyword(text) ==
    \E i \in 1..Len(text) :
        /\ text[i] = ";"
        /\ \E j \in (i + 1)..Len(text) :
              /\ Blank(text, i + 1, j)
              /\ \E k \in 1..Len(DANGEROUS_KEYWORDS) :
                    /\ MatchesAt(text, j, DANGEROUS_KEYWORDS[k])
                    /\ (j + Len(DANGEROUS_KEYWORDS[k]) > Len(text)
                        \/ text[j + Len(DANGEROUS_KEYWORDS[k])] \notin WordChars)

HasLineComment(text) == \E i \in 1..(Len(text) - 1) : text[i] = "-" /\ text[i + 1] = "-"

HasBlockComment(text) ==
    \E i \in 1..(Len(text) - 3) :
        /\ text[i] = "/" /\ text[i + 1] = "*"
        /\ \E j \in (i + 2)..(Len(text) - 1) : text[j] = "*" /\ text[j + 1] = "/"

\* UNION, whitespace, optionally ALL and whitespace, SELECT
HasUnionSelect(text) ==
    \E i \in 1..Len(text) :
        /\ MatchesAt(text, i, W_UNION)
        /\ \E j \in (i + 6)..Len(text) :
              /\ Blank(text, i + 5, j)
              /\ \/ MatchesAt(text, j, W_SELECT)
                 \/ /\ MatchesAt(text, j, W_ALL)
                    /\ \E k \in (j + 4)..Len(text) :
                          Blank(text, j + 3, k) /\ MatchesAt(text, k, W_SELECT)

\* C6: validateSql fails with DANGEROUS_QUERY on every text that holds a
\* semicolon followed, after optional whitespace, by a dangerous keyword, or a
\* line comment, or a block comment, or UNION [ALL] SELECT, also when the text
\* begins with SELECT or WITH.
C6_InjectionPatternsRejected ==
    /\ step = "validated"
    /\ \/ SemicolonThenKeyword(rawSql)
       \/ HasLineComment(rawSql)
       \/ HasBlockComment(rawSql)
       \/ HasUnionSelect(rawSql)
    => ~verdict.ok /\ verdict.code = "DANGEROUS_QUERY"

\* a text that begins with SELECT and holds UNION SELECT, and no dangerous
\* keyword, was refused by the pattern rule
C6_Witness ==
    /\ step = "validated"
    /\ BeginsWithSelectOrWith(rawSql)
    /\ HasUnionSelect(rawSql)
    /\ KeywordsPresent(rawSql) = {}
    /\ ~verdict.ok /\ verdict.rule = 3

\* C7 (as stated): sanitizeSql(sanitizeSql(s)) = sanitizeSql(s) for every text s.
C7_SanitizeIdempotent ==
    step = "resanitized" => resanitized = sql

\* C11 (as stated): every flow that connects an adapter has called
\* disconnect() on it by the time it returns, whether the calls after
\* connect() returned or threw.
C11_DisconnectOnEveryPath ==
    pc = "idle" /\ ConnectSucceeded => Count("disconnect") = 1 /\ ~adapter.pool

\* the operation-specific calls of the five operations
WorkCalls == {"executeQuery", "getSchema", "getSchemaContext", "ensureLlmInitialized", "llm"}

OperationFlows == {"generate", "execute", "explain", "fix", "schema"}

\* C12 (as stated): in the generate, execute, explain, fix and get-schema
\* flows the operation-specific calls are made only after connect() has
\* succeeded, and a request whose connect() failed is answered with
\* CONNECTION_FAILED without any of those calls.
C12_WorkOnlyAfterConnect ==
    flow \in OperationFlows =>
        /\ \A i \in 1..Len(trace) :
              trace[i] \in WorkCalls =>
                  /\ \E j \in 1..(i - 1) : trace[j] = "connect"
                  /\ ~Called("connect:failed")
        /\ Called("connect:failed") /\ pc = "idle" =>
              /\ ~response.success
              /\ response.code = "CONNECTION_FAILED"

(***************************************************************************)
(* Properties of the adapters (specification SpecAdapter).                 *)
(***************************************************************************)
\* the position of the last call of x in the trace, 0 when there is none
LastIndex(x) ==
    IF Called(x) THEN CHOOSE i \in 1..Len(trace) : trace[i] = x /\ \A j \in (i + 1)..Len(trace) : trace[j] # x
    ELSE 0

\* the last getSchema() on this instance returned a schema and no disconnect()
\* was called since
SchemaReturnedSinceDisconnect ==
    /\ schemaResult # NoSchema
    /\ LastIndex("disconnect") < LastIndex("getSchema")

\* C13: once getSchema() has returned a schema, each further getSchema() on the
\* instance before a disconnect() returns the identical schema object, without
\* throwing and without another metadata round trip, whatever the backend's
\* metadata has become and whether or not the driver would answer.
C13_SchemaCachedUntilDisconnect ==
    [][trace' = Append(trace, "getSchema") /\ SchemaReturnedSinceDisconnect =>
          /\ schemaResult' = schemaResult
          /\ err' = NoError
          /\ adapter'.fetches = adapter.fetches]_vars

\* getSchema() was called again after the backend's metadata had moved on, and
\* returned the object of the first call: one round trip, the old tables
C13_Witness ==
    /\ Count("getSchema") >= 2
    /\ trace[Len(trace)] = "getSchema"
    /\ LastIndex("disconnect") = 0
    /\ err = NoError
    /\ schemaResult = [obj |-> 1, tables |-> 1]
    /\ metadata = 2
    /\ adapter.fetches = 1

\* by the calls made: a connect() returned after the last disconnect()
ConnectedByCalls ==
    \E i \in (LastIndex("disconnect") + 1)..Len(trace) :
        /\ trace[i] = "connect"
        /\ (i = Len(trace) \/ trace[i + 1] # "connect:failed")

\* C14 (as stated): getSchema() and executeQuery() on an instance on which no
\* connect() has returned since it was built or last disconnected throw the
\* AppError NO_CONNECTION, return no schema and run nothing on a backend.
C14_NoConnectionUnlessConnected ==
    [][/\ \/ trace' = Append(trace, "getSchema")
          \/ trace' = Append(trace, "executeQuery")
       /\ ~ConnectedByCalls
       => /\ err'.app /\ err'.code = "NO_CONNECTION"
          /\ adapter'.fetches = adapter.fetches
          /\ trace' = Append(trace, "getSchema") => schemaResult' = NoSchema
          /\ trace' = Append(trace, "executeQuery") => query'.threw /\ query'.finalSql = <<>>]_vars

\* C15: after a disconnect() that returns, the instance holds no pool or client
\* and no cached schema; it closes a handle only when the instance held one,
\* so that on a never-connected or already-disconnected instance it reaches no
\* driver, does not throw and changes nothing; a second disconnect() changes
\* nothing.
C15_DisconnectSafeAndIdempotent ==
    [][trace' = Append(trace, "disconnect") =>
          /\ ~adapter.pool => err' = NoError
          /\ ~adapter'.pool /\ ~adapter'.ready
          /\ adapter'.schema = NoSchema
          /\ adapter'.closed = adapter.closed + (IF adapter.pool THEN 1 ELSE 0)
          /\ (~Called("connect") \/ trace[Len(trace)] = "disconnect") => adapter' = adapter
          /\ AdapterDisconnect(adapter') = adapter']_vars

\* an instance that was connected and held a cached schema was disconnected
\* twice: one handle closed, no schema, and the second call changed nothing
C15_Witness ==
    /\ Len(trace) >= 5
    /\ trace[Len(trace)] = "disconnect"
    /\ trace[Len(trace) - 1] = "disconnect"
    /\ Called("getSchema")
    /\ adapter.fetches = 1
    /\ adapter.opened = 1 /\ adapter.closed = 1
    /\ ~adapter.pool /\ adapter.schema = NoSchema
    /\ err = NoError

(***************************************************************************)
(* Properties of executeQuery in the execute flow (specification Spec).    *)
(***************************************************************************)
\* the statement carries a result-size cap of its own: LIMIT n, or TOP n on
\* SQL Server
CarriesCap(type, text) ==
    IF type = "sqlserver" THEN TopClause(text) # {} ELSE LimitClause(text) # {}

\* the statement with the backend's cap clause added once
WithCap(type, text) ==
    IF type = "sqlserver"
    THEN <<"S", "E", "L", "E", "C", "T", " ", "T", "O", "P", " ", "1", "0", "0", "0">>
         \o SubSeq(text, 7, Len(text))
    ELSE text \o <<" ", "L", "I", "M", "I", "T", " ", "1", "0", "0", "0">>

\* C16 (as stated): when a relational adapter's executeQuery returns for a text
\* that begins with SELECT, a text without a cap of its own went to the driver
\* with the cap clause added once and the result holds 1000 rows if the table
\* holds more than 1000 and every row otherwise; a text that carries a cap went
\* to the driver unchanged (both up to the whitespace around the text).
C16_CapAddedExactlyOnce ==
    /\ query.called /\ ~query.threw
    /\ adapter.type \in RelationalTypes
    /\ MatchesAt(query.arg, 1, W_SELECT)
    => IF CarriesCap(adapter.type, query.arg)
       THEN query.finalSql = trim(query.arg)
       ELSE /\ query.finalSql = WithCap(adapter.type, trim(query.arg))
            /\ query.rowCount = Min(query.tableRows, 1000)

(***************************************************************************)
(* Properties of the adapters' errors (specification SpecAdapter).         *)
(***************************************************************************)
\* the message holds the text of the error the driver raised at the named step
CarriesDriverText(message, what) ==
    \E i \in 1..Len(message) :
        /\ i + 1 <= Len(message)
        /\ SubSeq(message, i, i + 1) = DriverError(what).message

\* C17 (as stated): a connect() that fails throws the AppError
\* CONNECTION_FAILED, and its message holds the text of the driver's error
\* (raised when the handle was opened or when the connection was tested).
C17_ConnectFailureCarriesDriverText ==
    Len(trace) >= 1 /\ trace[Len(trace)] = "connect:failed" =>
        /\ err.app /\ err.code = "CONNECTION_FAILED"
        /\ CarriesDriverText(err.message, "open") \/ CarriesDriverText(err.message, "test")

\* the last call was an executeQuery on a live connection in which an error
\* was raised
QueryFailedWhileConnected ==
    /\ Len(trace) >= 1 /\ trace[Len(trace)] = "executeQuery"
    /\ LastIndex("connect") < Len(trace) /\ LastIndex("disconnect") < LastIndex("connect")
    /\ LastIndex("connect:failed") = 0
    /\ query.cause # NoError

\* C18 (as stated): every error raised while executeQuery runs on a live
\* connection is thrown as the AppError INVALID_SQL whose message is the
\* message of the original error and whose details hold the original error.
C18_EveryFailureCarriesOriginal ==
    QueryFailedWhileConnected =>
        /\ query.threw /\ query.rowCount = 0
        /\ err.app /\ err.code = "INVALID_SQL"
        /\ err.message = query.cause.message
        /\ err.details = <<query.cause>>

\* C18 (amended): every error raised while executeQuery runs on a live
\* connection is thrown as the AppError INVALID_SQL and no result is returned;
\* for a driver error and for an unsupported operation of the MongoDB adapter
\* the message is the message of the original error and the details hold the
\* original error; for a text JSON.parse refuses the message is the fixed
\* 'Invalid MongoDB query format. Expected JSON.' and there are no details.
C18_FailureIsInvalidSql ==
    QueryFailedWhileConnected =>
        /\ query.threw /\ query.rowCount = 0
        /\ err.app /\ err.code = "INVALID_SQL"
        /\ IF query.cause.code = "SyntaxError"
           THEN /\ err.message = <<"Invalid MongoDB query format. Expected JSON.">>
                /\ err.details = <<>>
           ELSE /\ err.message = query.cause.message
                /\ err.details = <<query.cause>>

\* a connected MongoDB adapter was handed a text that is not JSON
C18_Witness ==
    /\ QueryFailedWhileConnected
    /\ adapter.type = "mongodb"
    /\ query.arg = T_SelectAll
    /\ query.cause.code = "SyntaxError"
    /\ err.code = "INVALID_SQL"
    /\ err.details = <<>>

(***************************************************************************)
(* Properties of the factory (specification SpecAdapter).                  *)
(***************************************************************************)
\* the instance has the state of a newly constructed one
Fresh(a) ==
    /\ ~a.pool /\ ~a.ready
    /\ a.schema = NoSchema
    /\ a.fetches = 0 /\ a.opened = 0 /\ a.closed = 0

\* the message holds the part
Names(message, part) == \E i \in 1..Len(message) : message[i] = part

\* C19: createDatabaseAdapter returns, for each of the five supported types, an
\* instance of that type in the state of a newly constructed one, whatever the
\* instance built before it has been through; for any other type it throws the
\* AppError CONNECTION_FAILED whose message names the type asked for and every
\* supported type, and returns no instance.
C19_FactoryBuildsFreshAdapter ==
    [][trace' = <<"createDatabaseAdapter">> =>
          IF config' \in {"postgresql", "mysql", "sqlite", "sqlserver", "mongodb"}
          THEN /\ err' = NoError
               /\ adapter'.type = config'
               /\ Fresh(adapter')
          ELSE /\ adapter' = NoAdapter
               /\ err'.app /\ err'.code = "CONNECTION_FAILED"
               /\ Names(err'.message, config')
               /\ \A t \in {"postgresql", "mysql", "sqlite", "sqlserver", "mongodb"} :
                     Names(err'.message, t)]_vars

\* the factory was asked for a type it does not support
C19_Witness ==
    /\ trace = <<"createDatabaseAdapter">>
    /\ config = "oracle"
    /\ adapter = NoAdapter
    /\ err.code = "CONNECTION_FAILED"
    /\ err.message = <<"Unsupported database type: ", "oracle", ". Supported types: ",
                       "postgresql", ", ", "mysql", ", ", "sqlite", ", ", "sqlserver", ", ",
                       "mongodb">>

(***************************************************************************)
(* Properties of error propagation in the request flows (specification     *)
(* Spec).                                                                  *)
(***************************************************************************)
\* C20 (as stated): when a request ends after the factory, an adapter, the
\* validator or the LLM bridge threw an AppError, the response is a failure
\* that carries the code and the message of that AppError.
C20_FailureReachesResponseUnchanged ==
    pc = "idle" /\ err.app =>
        /\ ~response.success
        /\ response.code = err.code
        /\ response.message = err.message

(***************************************************************************)
(* Properties of the handles an adapter owns.                              *)
(***************************************************************************)
\* C21 (as stated): an adapter instance owns at most one live pool at a time:
\* after any sequence of connect, disconnect, getSchema and executeQuery
\* calls on it (connect twice without a disconnect and a failing connect
\* included) the pools it opened and did not close number at most one
\* (specification SpecAdapter).
C21_AtMostOneLivePool ==
    adapter.opened - adapter.closed <= 1

\* C25 (as stated): when adapter.connect() throws inside a flow, every pool
\* that connect() opened has been closed by the time the flow returns
\* (specification Spec).
C25_FailedConnectLeavesNoPool ==
    pc = "idle" /\ Called("connect:failed") => adapter.opened = adapter.closed

(***************************************************************************)
(* Properties of the writes of the session (specification Spec).           *)
(***************************************************************************)
\* C24: the session is written only by the connect and demo-connect flows,
\* after both connect() and getSchema() succeeded (it then holds the config of
\* the request and the time of the save), and by disconnect, which clears it;
\* every other step of every flow, a failed connect attempt included, leaves
\* the stored config and connectedAt as they were; what is stored has the two
\* fields connection and connectedAt and never a schema.
C24_SessionWrittenOnlyByConnectAndDisconnect ==
    [][/\ DOMAIN session' = {"connection", "connectedAt"}
       /\ session' # session \/ lastSavedAt' # lastSavedAt =>
            \/ /\ flow \in {"connect", "demo"}
               /\ ConnectSucceeded
               /\ trace[Len(trace)] = "getSchema"
               /\ schemaResult # NoSchema
               /\ err = NoError
               /\ trace' = Append(trace, "saveConnectionToSession")
               /\ session' = [connection |-> config, connectedAt |-> now]
            \/ /\ trace' = <<"clearSession">>
               /\ session' = [connection |-> "null", connectedAt |-> 0]]_vars

\* a reconnect whose connect() failed has returned and the session still holds
\* the connection saved before it
C24_Witness ==
    /\ pc = "idle" /\ flow = "connect"
    /\ Called("connect:failed")
    /\ session.connection = "postgresql"
    /\ config = "mysql"
    /\ session.connectedAt = lastSavedAt
    /\ now > session.connectedAt

(***************************************************************************)
(* Properties of the execute flow on a MongoDB session (specification      *)
(* Spec).                                                                  *)
(***************************************************************************)
\* C26: the text the execute flow hands to executeQuery of any adapter begins
\* with SELECT or WITH; on a mongodb session the MongoDB adapter, once
\* connected, rejects that text as INVALID_SQL because it is not JSON, and no
\* execute request returns success.
C26_MongoExecuteNeverSucceeds ==
    /\ flow = "execute" /\ query.called => BeginsWithSelectOrWith(query.arg)
    /\ flow = "execute" /\ query.called /\ adapter.type = "mongodb" /\ ConnectSucceeded =>
          /\ query.threw
          /\ query.code = "INVALID_SQL"
          /\ query.cause = JsonSyntaxError
    /\ flow = "execute" /\ config = "mongodb" /\ pc = "idle" => ~response.success

\* an accepted SELECT reached the connected MongoDB adapter and the request
\* was answered with INVALID_SQL
C26_Witness ==
    /\ flow = "execute" /\ pc = "idle"
    /\ config = "mongodb"
    /\ verdict = Accepted
    /\ ConnectSucceeded
    /\ query.called /\ query.arg = T_SelectAll
    /\ query.cause = JsonSyntaxError
    /\ ~response.success /\ response.code = "INVALID_SQL"

(***************************************************************************)
(* Properties of the rate limiter (specification SpecRate).  MaxRequests   *)
(* stands where the source has RATE_LIMIT_MAX_REQUESTS.                    *)
(***************************************************************************)
\* the entry of k unless its window is over at time t
Live(store, k, t) ==
    IF store[k] = NoEntry \/ store[k].resetTime < t THEN NoEntry ELSE store[k]

\* C22: every pass through the middleware consults and counts on the entry of
\* its client.  A call that finds no entry, or one whose resetTime has passed,
\* starts a window with count 1 that lasts until now + RATE_LIMIT_WINDOW_MS.
\* Within a window the call is admitted while fewer than MaxRequests calls
\* were, and the count grows by one; every further call up to and including
\* resetTime is answered with 429 and changes nothing.  The stored count is
\* the number of calls admitted in the window and never exceeds MaxRequests;
\* remaining is MaxRequests less the count and never negative.
C22_WindowAdmitsFirstMaxRequests ==
    [][/\ now' = now =>
            LET c == rateResult'.clientId
                before == rateLimitStore[c]
                after == rateLimitStore'[c]
            IN  IF Live(rateLimitStore, c, now) = NoEntry
                THEN /\ rateResult'.allowed /\ rateResult'.status = 200
                     /\ after = [count |-> 1, resetTime |-> now + RATE_LIMIT_WINDOW_MS]
                     /\ rateResult'.remaining = MaxRequests - 1
                     /\ rateResult'.resetTime = after.resetTime
                ELSE IF before.count < MaxRequests
                THEN /\ rateResult'.allowed /\ rateResult'.status = 200
                     /\ after = [before EXCEPT !.count = @ + 1]
                     /\ rateResult'.remaining = MaxRequests - after.count
                     /\ rateResult'.resetTime = before.resetTime
                ELSE /\ ~rateResult'.allowed /\ rateResult'.status = 429
                     /\ after = before
                     /\ rateResult'.remaining = 0
                     /\ rateResult'.resetTime = before.resetTime
       /\ rateResult'.remaining >= 0
       /\ \A k \in ClientIds :
            /\ rateLimitStore'[k].count <= MaxRequests
            /\ rateLimitStore'[k] # NoEntry /\ now' < rateLimitStore'[k].resetTime =>
                  rateLimitStore'[k].count =
                      Cardinality({i \in 1..Len(allowedLog'[k]) :
                                     allowedLog'[k][i] >= rateLimitStore'[k].resetTime
                                                          - RATE_LIMIT_WINDOW_MS})]_vars

\* a call made at the very instant resetTime, after MaxRequests admitted calls,
\* is answered with 429
C22_Witness ==
    /\ rateResult.clientId = "10.0.0.1"
    /\ rateResult.status = 429 /\ rateResult.remaining = 0
    /\ rateLimitStore["10.0.0.1"].count = MaxRequests
    /\ rateLimitStore["10.0.0.1"].resetTime = now

\* C23 (as stated): the limiter is a sliding window: in every interval of
\* length RATE_LIMIT_WINDOW_MS, one that straddles a resetTime included, a
\* client has at most MaxRequests admitted calls.
C23_SlidingWindowBound ==
    \A k \in ClientIds : Len(allowedLog[k]) <= MaxRequests

\* C29: a pass through the middleware for one client leaves the entry of every
\* other client as it was, except that the sweep may delete an entry whose
\* resetTime has passed; a denied call leaves the entry of its own client as
\* it was; and the sweep changes the answer of no later call: a call of any
\* client at any later time is answered as it would be, had the sweep not run.
C29_ClientsIsolated ==
    [][now' = now =>
          LET c == rateResult'.clientId
              unswept == checkRateLimit(rateLimitStore, now, c, now)
          IN  /\ \A k \in ClientIds \ {c} :
                    \/ rateLimitStore'[k] = rateLimitStore[k]
                    \/ /\ rateLimitStore'[k] = NoEntry
                       /\ rateLimitStore[k].resetTime < now
                       /\ lastCleanup' = now
              /\ ~rateResult'.allowed => rateLimitStore'[c] = rateLimitStore[c]
              /\ \A k \in ClientIds : \A d \in {0} \cup RateSteps :
                    LET swept == checkRateLimit(rateLimitStore', lastCleanup', k, now + d)
                        kept == checkRateLimit(unswept.store, lastCleanup', k, now + d)
                    IN  /\ swept.allowed = kept.allowed
                        /\ swept.remaining = kept.remaining
                        /\ swept.resetTime = kept.resetTime]_vars

\* a call of one client was denied by a sweeping pass while the other client
\* holds its own running window
C29_Witness ==
    /\ rateResult.clientId = "10.0.0.1" /\ rateResult.status = 429
    /\ lastCleanup = now /\ now > 1
    /\ rateLimitStore["10.0.0.1"].count = MaxRequests
    /\ rateLimitStore["unknown"].count = 1
    /\ rateLimitStore["unknown"].resetTime # rateLimitStore["10.0.0.1"].resetTime

(***************************************************************************)
(* Properties of the tabs of the query page (specifications SpecTabs,      *)
(* SpecQuery and SpecQueryFair).                                           *)
(***************************************************************************)
\* the ids of the tabs that are open
OpenIds == {tabs[i].id : i \in 1..Len(tabs)}

\* the open tab with the id
TabOf(id) == tabs[CHOOSE i \in 1..Len(tabs) : tabs[i].id = id]

\* C28 (as stated): after mount and any sequence of addTab, closeTab,
\* setActiveTab, renameTab and reorderTabs calls, two closeTab calls before a
\* re-render included, the list of tabs is not empty and activeTabId is the id
\* of a tab of the list (specification SpecTabs).
C28_ActiveTabIsPresent ==
    Len(tabs) >= 1 /\ activeTabId \in OpenIds

\* C27: when the HTTP call of a generateSql, executeSql or fixSql issued from
\* the tab T settles, whatever tab is active by then and whatever the call
\* comes to, the list holds the same tabs in the same order, every tab other
\* than T is as it was, and when T has been closed no tab changes
\* (specification SpecQuery; a slot of inflight is emptied by the settling of
\* its request only).
C27_ResponseUpdatesOnlyItsTab ==
    [][\A slot \in Slots :
          inflight[slot] # NoRequest /\ inflight'[slot] = NoRequest =>
              /\ Len(tabs') = Len(tabs)
              /\ \A i \in 1..Len(tabs) :
                    /\ tabs'[i].id = tabs[i].id
                    /\ tabs[i].id # inflight[slot].origin => tabs'[i] = tabs[i]
              /\ inflight[slot].origin \notin OpenIds => tabs' = tabs
              /\ activeTabId' = activeTabId]_vars

\* the generateSql issued from tab 2 has settled while tab 1 is active: tab 2
\* holds the generated SQL and tab 1 is as createTab() left it
C27_Witness ==
    /\ Len(tabs) = 2
    /\ activeTabId = 1
    /\ tabs[1] = [createTab(1) EXCEPT !.name = <<"Query ", 1>>]
    /\ tabs[2].id = 2 /\ tabs[2].status = "editing" /\ tabs[2].sql = "SELECT 1"
    /\ \A slot \in Slots : inflight[slot] = NoRequest

\* a request of the kind issued from the tab id has not settled
InFlight(kind, id) ==
    \E slot \in Slots : inflight[slot].kind = kind /\ inflight[slot].origin = id

\* the tab id has been closed or its status is one of the set
ClosedOrIn(id, statuses) == id \notin OpenIds \/ TabOf(id).status \in statuses

\* C30 (as stated): once the HTTP call settles, however it does, the tab an
\* executeSql with non-blank SQL was issued from comes to success or error,
\* the tab a generateSql was issued from comes to editing or error, and
\* isFixing is false again after a fixSql (specification SpecQueryFair).
C30_RequestsSettle ==
    /\ \A id \in TabIds : InFlight("execute", id) ~> ClosedOrIn(id, {"success", "error"})
    /\ \A id \in TabIds : InFlight("generate", id) ~> ClosedOrIn(id, {"editing", "error"})
    /\ \A id \in TabIds : InFlight("fix", id) ~> ~isFixing

====
